---- MODULE Spec2Model ----
(***************************************************************************)
(* Model of the QR scan-event core of the repository:                      *)
(*   - CompleteBookwormScanner  (src/complete_rabbitmq_scanner.py)         *)
(*   - QRCodeScanner            (src/qr_scanner.py)                        *)
(*   - MessageProcessor         (src/message_processor.py)                 *)
(* A decoded text is a sequence of one-character strings, so that          *)
(* str.strip() and str.upper() are computed, not assumed.                  *)
(***************************************************************************)
EXTENDS Integers, Sequences, FiniteSets, TLC

VARIABLES
  pc,                \* position of run(): "init", "loop", "frame", "sleep", "done"
  running,           \* self.running
  clock,             \* time.time() / datetime.now(), in whole ticks
  current_location,  \* self.current_location
  last_scans,        \* self.last_scans : raw text -> time of last accepted decode
  rabbitmq_channel,  \* self.rabbitmq_channel is not None
  n_left,            \* QR codes of the current frame still to be handled
  outbox,            \* scan messages handed to send_rabbitmq_message, in order
  last,              \* what the latest step of the scan loop did
  accepted,          \* history: <<text, time>> of every call of process_qr_code
  located_by,        \* history: code of the latest 'location' result
  audit,             \* lines send_rabbitmq_message wrote to the local output
  queue,             \* bodies waiting in the scan_results queue, head first
  delivery_tag,      \* method.delivery_tag of the latest delivery
  mp_clock,          \* time.time() / datetime.now() of the consumer
  auto_update_location, \* processing_rules['auto_update_location']
  ies4_entities,     \* Store-A: entity_id -> what the latest accepted POST set
  solr_docs,         \* Store-B: committed documents, id -> document
  solr_pending,      \* Store-B: documents posted and not yet committed
  processing_stats,  \* self.processing_stats
  location_updates,  \* messages published with routing_key_update, in order
  notifications,     \* messages published with routing_key_notification
  delivery,          \* what the latest call of process_scan_message did
  mp_pc,             \* position of the consumer: "new", "idle", inside the
                     \* callback ("ies4", "solr", "finish"), or "exited"
  unacked,           \* bodies the broker pushed and that are not yet acked
  config_file,       \* what the configuration file holds
  boot,              \* what the construction of the program did
  asset_locations,   \* table asset_locations: one row per recorded scan
  current_asset_positions, \* table current_asset_positions
  audit_trail,       \* table audit_trail, in the order of its ids
  scan_seq,          \* AUTOINCREMENT sequence of asset_locations
  db_last            \* what the latest call on DatabaseUpdateService did

\* the variables of the scanners
svars == <<pc, running, clock, current_location, last_scans, rabbitmq_channel,
           n_left, outbox, last, accepted, located_by, audit>>

\* the variables of the consumer
cvars == <<queue, delivery_tag, mp_clock, auto_update_location, ies4_entities,
           solr_docs, solr_pending, processing_stats, location_updates,
           notifications, delivery, mp_pc, unacked>>

\* the variables of the startup
bvars == <<config_file, boot>>

\* the tables of the database service
dvars == <<asset_locations, current_asset_positions, audit_trail, scan_seq,
           db_last>>

vars == <<svars, cvars, bvars, dvars>>

----------------------------------------------------------------------------
(* Bounds of the model *)

MaxTime == 3
Window == 2
MaxCodes == 1
MaxBurst == 2
MaxQueue == 1
MaxDeliveries == 2
MaxNow == 1
MaxScans == 2
MaxStamp == 1
Threshold == 0

----------------------------------------------------------------------------
(* Texts *)

None == <<"None">>

Txt_OP1  == <<"O", "P", "1">>
Txt_OP2  == <<"O", "P", "2">>
Txt_op2  == <<"o", "p", "2">>
Txt_op1s == <<" ", "o", "p", "1", " ">>
Txt_op1  == <<"o", "p", "1">>
Txt_K1   == <<"K", "1">>
Txt_k1   == <<"k", "1">>
Txt_S500 == <<"S", "5", "0", "0">>
Txt_s500 == <<"s", "5", "0", "0">>
Txt_KA   == <<"K", "A">>
Txt_Ka   == <<"K", "a">>
Txt_ZZZZ == <<"Z", "Z", "Z", "Z">>
Txt_OP   == <<"O", "P">>
Txt_500  == <<"5", "0", "0">>

Whitespace == {" ", "\t", "\n", "\r"}

LowerCase == <<"a", "k", "o", "p", "s", "z">>
UpperCase == <<"A", "K", "O", "P", "S", "Z">>

UpperChar(c) ==
  IF \E i \in 1..Len(LowerCase) : LowerCase[i] = c
  THEN UpperCase[CHOOSE i \in 1..Len(LowerCase) : LowerCase[i] = c]
  ELSE c

upper(s) == [i \in 1..Len(s) |-> UpperChar(s[i])]

RECURSIVE lstrip(_)
lstrip(s) ==
  IF s # <<>> /\ Head(s) \in Whitespace THEN lstrip(Tail(s)) ELSE s

RECURSIVE rstrip(_)
rstrip(s) ==
  IF s # <<>> /\ s[Len(s)] \in Whitespace
  THEN rstrip(SubSeq(s, 1, Len(s) - 1)) ELSE s

strip(s) == rstrip(lstrip(s))

\* Python truthiness of an optional string: None and "" are false
Truthy(x) == x # None /\ x # <<>>

\* a + b for str
Concat(a, b) == a \o b

\* a in b for str (substring)
Contains(a, b) ==
  \E i \in 1..(Len(b) - Len(a) + 1) : SubSeq(b, i, i + Len(a) - 1) = a

endswith(s, suffix) ==
  Len(suffix) <= Len(s) /\ SubSeq(s, Len(s) - Len(suffix) + 1, Len(s)) = suffix

startswith(s, prefix) ==
  Len(prefix) <= Len(s) /\ SubSeq(s, 1, Len(prefix)) = prefix

----------------------------------------------------------------------------
(* Configuration: config['qr_codes'] and config['processing_rules'] *)

locations ==
  (Txt_OP1 :> "Donetsk Oblas") @@ (Txt_OP2 :> "Dnipropetrovsk Oblas")
  @@ (Txt_K1 :> "Kyiv Oblas") @@ (Txt_k1 :> "Kirovohrad Oblas")

objects ==
  (Txt_S500 :> [name |-> "S500", type |-> "Vehicle"])
  @@ (Txt_KA :> [name |-> "KA50", type |-> "AV Equipment"])
  @@ (Txt_Ka :> [name |-> "SADrone", type |-> "Unmanned Aircraft"])
  @@ (Txt_op2 :> [name |-> "Fire Extinguisher", type |-> "Safety Equipment"])
  @@ (Txt_K1 :> [name |-> "Fire Extinguisher", type |-> "Safety Equipment"])

duplicate_scan_window_seconds == Window

\* dict.get(key, default)
Get(table, key, default) == IF key \in DOMAIN table THEN table[key] ELSE default

----------------------------------------------------------------------------
(* Texts the decoder delivers *)

Texts == {Txt_OP1, Txt_op2, Txt_S500, Txt_s500, Txt_ZZZZ}

\* texts for the calls of process_qr_code on its own
ClassifyTexts ==
  {Txt_OP1, Txt_OP2, Txt_op1, Txt_op1s, Txt_op2, Txt_K1, Txt_k1, Txt_S500,
   Txt_s500, Txt_KA, Txt_Ka, Txt_ZZZZ, Txt_OP, << >>}

\* texts the decoder delivers to QRCodeScanner
TextsQR == {Txt_OP1, Txt_OP, Txt_S500, Txt_500, Txt_ZZZZ}

NoResult == [type |-> "none"]

----------------------------------------------------------------------------
(* Dedup gate: is_duplicate_scan *)

\* variant: the gate is keyed on the normalized text
scan_key_Normalized(qr_data) == upper(strip(qr_data))

\* the key of self.last_scans: the decoded text as it is
scan_key(qr_data) == qr_data

\* variant: the comparison of the window test is reversed
is_duplicate_scan_Reversed(qr_data, scans, now) ==
  /\ qr_data \in DOMAIN scans
  /\ now - scans[qr_data] > duplicate_scan_window_seconds

is_duplicate_scan(qr_data, scans, now) ==
  /\ scan_key(qr_data) \in DOMAIN scans
  /\ now - scans[scan_key(qr_data)] < duplicate_scan_window_seconds

\* variant: the time is recorded on every detection, suppressed or not
record_scan_Sliding(qr_data, scans, now) ==
  [k \in (DOMAIN scans) \cup {qr_data} |->
     IF k = qr_data THEN now ELSE scans[k]]

\* variant: entries older than the window are dropped on an accepted decode
record_scan_Pruning(qr_data, scans, now) ==
  IF is_duplicate_scan(qr_data, scans, now)
  THEN scans
  ELSE [k \in {j \in DOMAIN scans :
                 now - scans[j] < duplicate_scan_window_seconds} \cup {qr_data} |->
          IF k = qr_data THEN now ELSE scans[k]]

\* self.last_scans after the call
record_scan(qr_data, scans, now) ==
  IF is_duplicate_scan(qr_data, scans, now)
  THEN scans
  ELSE [k \in (DOMAIN scans) \cup {scan_key(qr_data)} |->
          IF k = scan_key(qr_data) THEN now ELSE scans[k]]

----------------------------------------------------------------------------
(* CompleteBookwormScanner *)

qr_data_normalized(qr_data) == upper(strip(qr_data))

\* variant: the normalized text is tried before the raw text
LocationKey_NormalizedFirst(qr_data) ==
  IF qr_data_normalized(qr_data) \in DOMAIN locations
  THEN qr_data_normalized(qr_data)
  ELSE IF qr_data \in DOMAIN locations THEN qr_data
       ELSE None

\* variant: a raw object key is tried before the normalized location key
LocationKey_AfterRawObject(qr_data) ==
  IF qr_data \in DOMAIN locations THEN qr_data
  ELSE IF qr_data \in DOMAIN objects THEN None
  ELSE IF qr_data_normalized(qr_data) \in DOMAIN locations
       THEN qr_data_normalized(qr_data)
       ELSE None

LocationKey(qr_data) ==
  IF qr_data \in DOMAIN locations THEN qr_data
  ELSE IF qr_data_normalized(qr_data) \in DOMAIN locations
       THEN qr_data_normalized(qr_data)
       ELSE None

ObjectKey(qr_data) ==
  IF qr_data \in DOMAIN objects THEN qr_data
  ELSE IF qr_data_normalized(qr_data) \in DOMAIN objects
       THEN qr_data_normalized(qr_data)
       ELSE None

create_scan_message(object_code, location_code, now) ==
  [timestamp     |-> now,
   object_code   |-> object_code,
   object_info   |-> Get(objects, object_code, [name |-> "", type |-> ""]),
   location_code |-> location_code,
   location_info |-> Get(locations, location_code, ""),
   event_type    |-> "object_location_update",
   source        |-> "bookworm_qr_scanner"]

\* variant: an exception of basic_publish leaves send_rabbitmq_message
send_outcomes_Raises(channel) ==
  IF channel THEN {"delivered", "raised"} ELSE {"logged"}

\* outcome of send_rabbitmq_message: basic_publish may raise
send_outcomes(channel) ==
  IF channel THEN {"delivered", "logged"} ELSE {"logged"}

\* variant: only a successful publish writes a line
send_audit_OnlyOnSuccess(message, channel, outcome) ==
  IF outcome = "delivered"
  THEN <<[event |-> "RabbitMQ", message |-> message, serialized |-> FALSE]>>
  ELSE << >>

\* what send_rabbitmq_message writes to stdout (print and logger): the
\* line names the message; serialized is TRUE when json.dumps(message)
\* is printed with it
send_audit(message, channel, outcome) ==
  IF outcome = "delivered"
  THEN <<[event |-> "RabbitMQ", message |-> message, serialized |-> FALSE]>>
  ELSE IF channel
       THEN <<[event |-> "send_failed", message |-> message,
               serialized |-> TRUE]>>
       ELSE <<[event |-> "LOCAL", message |-> message, serialized |-> TRUE]>>

\* variant: the decoded text is stored instead of the matched key
LocationAfter_RawText(qr_data, loc) ==
  IF Truthy(LocationKey(qr_data)) THEN qr_data ELSE loc

\* variant: an unknown code clears the location
LocationAfter_ResetOnUnknown(qr_data, loc) ==
  IF Truthy(LocationKey(qr_data)) THEN LocationKey(qr_data)
  ELSE IF Truthy(ObjectKey(qr_data)) THEN loc ELSE None

\* variant: the location is used up by the object scan it is sent with
LocationAfter_UsedUp(qr_data, loc) ==
  IF Truthy(LocationKey(qr_data)) THEN LocationKey(qr_data)
  ELSE IF Truthy(ObjectKey(qr_data)) THEN None ELSE loc

\* the location after process_qr_code(qr_data)
LocationAfter(qr_data, loc) ==
  IF Truthy(LocationKey(qr_data)) THEN LocationKey(qr_data) ELSE loc

\* variant: the message is sent without looking at the location
SendsMessage_NoLocationCheck(qr_data, loc) ==
  /\ ~Truthy(LocationKey(qr_data))
  /\ Truthy(ObjectKey(qr_data))

\* is a scan message built and sent by process_qr_code(qr_data)
SendsMessage(qr_data, loc) ==
  /\ ~Truthy(LocationKey(qr_data))
  /\ Truthy(ObjectKey(qr_data))
  /\ Truthy(loc)

\* the value process_qr_code(qr_data) returns
ResultOf(qr_data, loc, outcome) ==
  IF Truthy(LocationKey(qr_data))
  THEN [type |-> "location", code |-> LocationKey(qr_data)]
  ELSE IF Truthy(ObjectKey(qr_data))
       THEN IF Truthy(loc)
            THEN [type |-> "object", code |-> ObjectKey(qr_data),
                  location |-> loc, message_sent |-> (outcome = "delivered")]
            ELSE [type |-> "object_no_location", code |-> ObjectKey(qr_data)]
       ELSE NoResult

\* variant: the newest message is put in front of the earlier ones
hand_to_publisher_Front(box, entry) == <<entry>> \o box

\* send_rabbitmq_message is called inside process_qr_code, before the next
\* QR code of the frame is looked at
hand_to_publisher(box, entry) == Append(box, entry)

process_qr_code(qr_data) ==
  \E outcome \in send_outcomes(rabbitmq_channel) :
    /\ current_location' = LocationAfter(qr_data, current_location)
    /\ outbox' =
         IF SendsMessage(qr_data, current_location)
         THEN hand_to_publisher(outbox,
                [message |-> create_scan_message(ObjectKey(qr_data),
                                                 current_location, clock),
                 outcome |-> outcome])
         ELSE outbox
    /\ audit' =
         IF SendsMessage(qr_data, current_location)
         THEN audit \o send_audit(create_scan_message(ObjectKey(qr_data),
                                                      current_location, clock),
                                  rabbitmq_channel, outcome)
         ELSE audit
    /\ UNCHANGED <<cvars, bvars, dvars>>
    /\ last' = [op |-> "processed", qr_data |-> qr_data,
                location_before |-> current_location,
                result |-> ResultOf(qr_data, current_location, outcome)]
    /\ accepted' = accepted \cup {<<qr_data, clock>>}
    /\ located_by' =
         IF ResultOf(qr_data, current_location, outcome).type = "location"
         THEN ResultOf(qr_data, current_location, outcome).code
         ELSE located_by

----------------------------------------------------------------------------
(* MessageProcessor (message_processor.py): bodies, stores, helpers *)

\* the message of a scan of a laptop: its object_info has a high-value type
laptop_scan_message ==
  [create_scan_message(Txt_KA, Txt_OP1, 0)
     EXCEPT !.object_info = [name |-> "Laptop", type |-> "Computer"]]

\* a scan message that lacks its timestamp
untimed_scan_message ==
  [object_code   |-> Txt_S500,
   object_info   |-> objects[Txt_S500],
   location_code |-> Txt_OP1,
   location_info |-> locations[Txt_OP1],
   event_type    |-> "object_location_update",
   source        |-> "bookworm_qr_scanner"]

\* a body that json.loads turns into a dict with these fields
Body(fields) == [kind |-> "json_object", fields |-> fields]

\* bodies the broker delivers: scan messages of the scanners, a JSON object
\* without object_code, a JSON array, text that is not JSON, and bytes that
\* are not UTF-8
Bodies ==
  {Body(create_scan_message(Txt_S500, Txt_OP1, 0)),
   Body(create_scan_message(Txt_S500, Txt_OP2, 1)),
   Body(laptop_scan_message),
   Body([timestamp |-> 0, location_code |-> Txt_OP1]),
   Body(untimed_scan_message),
   [kind |-> "json_array"],
   [kind |-> "not_json"],
   [kind |-> "not_utf8"]}

HasKey(body, key) == body.kind = "json_object" /\ key \in DOMAIN body.fields

\* the exception raised by body.decode, json.loads or message['object_code']
\* at the head of process_scan_message; "" when none is raised
parse_exception(body) ==
  IF body.kind = "not_utf8" THEN "UnicodeDecodeError"
  ELSE IF body.kind = "not_json" THEN "JSONDecodeError"
  ELSE IF body.kind # "json_object" THEN "TypeError"
  ELSE IF ~HasKey(body, "object_code") THEN "KeyError"
  ELSE ""

notification_threshold_minutes == Threshold

\* time_diff > threshold_minutes: the message is older than the threshold
is_stale(body, now) ==
  /\ HasKey(body, "timestamp")
  /\ now - body.fields.timestamp > notification_threshold_minutes

\* the logger.warning of should_process_message is written
stale_warning(body, auto_update, now) == auto_update /\ is_stale(body, now)

\* variant: the auto_update_location rule is not consulted
should_process_message_IgnoresRule(body, auto_update, now) == TRUE

\* variant: a message older than the threshold is skipped
should_process_message_DropsStale(body, auto_update, now) ==
  auto_update /\ ~is_stale(body, now)

\* message['timestamp'] or datetime.fromisoformat raises inside the try
\* block of should_process_message
rules_raise(body) == ~HasKey(body, "timestamp")

\* variant: a message whose rules cannot be evaluated is skipped
should_process_message_FailsClosed(body, auto_update, now) ==
  IF ~auto_update THEN FALSE ELSE ~rules_raise(body)

\* False when auto-update is disabled; otherwise True: from the except
\* clause when the rules raise, else from the end of the try block, with or
\* without the staleness warning
should_process_message(body, auto_update, now) ==
  IF ~auto_update THEN FALSE
  ELSE IF rules_raise(body) THEN TRUE
  ELSE TRUE

high_value_types == {"Computer", "Network Equipment"}

\* variant: every successful update is notified
should_send_notification_Always(body) == TRUE

should_send_notification(body) ==
  /\ HasKey(body, "object_info")
  /\ body.fields.object_info.type \in high_value_types

\* the payload and the documents need these keys; a missing one raises
\* KeyError inside the try of the update, which then returns False
HasUpdateKeys(body) ==
  /\ HasKey(body, "object_code")
  /\ HasKey(body, "object_info")
  /\ HasKey(body, "location_code")
  /\ HasKey(body, "timestamp")

InSeq(x, seq) == \E i \in 1..Len(seq) : seq[i] = x

\* variant: Store-B is updated only after Store-A succeeded
store_calls_ShortCircuit(body, ies4_ok, solr_ok) ==
  IF ~HasUpdateKeys(body) THEN << >>
  ELSE IF ~ies4_ok THEN <<"ies4_post">>
  ELSE <<"ies4_post", "solr_post">>
         \o (IF solr_ok THEN <<"solr_commit">> ELSE << >>)

\* the requests process_location_update makes, in order: the commit follows
\* a SOLR post that answered 200
store_calls(body, ies4_ok, solr_ok) ==
  IF ~HasUpdateKeys(body) THEN << >>
  ELSE <<"ies4_post", "solr_post">>
         \o (IF solr_ok THEN <<"solr_commit">> ELSE << >>)

\* variant: one successful store is enough
process_location_update_Either(ies4_success, solr_success) ==
  ies4_success \/ solr_success

\* return ies4_success and solr_success
process_location_update(ies4_success, solr_success) ==
  ies4_success /\ solr_success

\* Store-A keeps, for an entity, what the latest accepted POST carried
ies4_payload(message) ==
  [location_id |-> message.location_code, timestamp |-> message.timestamp]

\* id of a SOLR document: <<object_code, n>> stands for the text
\* "{object_code}_{n}", and <<object_code, -1>> for "{object_code}"
history_id(object_code, now) == <<object_code, now>>
current_id(object_code) == <<object_code, -1>>

\* update_data = [doc, current_location_doc] of update_apache_solr
solr_update_data(message, now) ==
  history_id(message.object_code, now) :>
      [object_id   |-> message.object_code,
       location_id |-> message.location_code,
       timestamp   |-> message.timestamp]
  @@
  current_id(message.object_code) :>
      [object_id           |-> message.object_code,
       current_location_id |-> message.location_code,
       last_seen           |-> message.timestamp,
       last_updated        |-> now]

\* documents are added by id: a document with a known id replaces the old one
solr_add(docs, update_data) == update_data @@ docs

\* the query sorts by last_updated and takes one row: the current-location
\* document when the request answers with it, None otherwise
\* variant: a failed lookup of the previous location stops the event
event_emitted_NeedsLookup(body, lookup_ok, publish_ok) ==
  HasKey(body, "location_info") /\ publish_ok /\ lookup_ok

\* generate_location_update_message reached the end of its try block: the
\* message was built (original_message['location_info'] exists) and
\* basic_publish did not raise; get_previous_location catches its own errors
event_emitted(body, lookup_ok, publish_ok) ==
  HasKey(body, "location_info") /\ publish_ok

\* how the SOLR select of get_previous_location ended, in a delivery whose
\* store updates succeeded
lookup_outcome(success, lookup_ok) ==
  IF ~success THEN "not_called"
  ELSE IF lookup_ok THEN "ok" ELSE "failed"

\* how the basic_publish of generate_location_update_message ended; it is
\* not called when building the message raised
publish_outcome(success, body, publish_ok) ==
  IF ~success \/ ~HasKey(body, "location_info") THEN "not_called"
  ELSE IF publish_ok THEN "ok" ELSE "failed"

get_previous_location(docs, object_code, lookup_ok) ==
  IF lookup_ok /\ current_id(object_code) \in DOMAIN docs
  THEN docs[current_id(object_code)].current_location_id
  ELSE None

\* update_message of generate_location_update_message
location_update_message(message, previous_location) ==
  [original_timestamp |-> message.timestamp,
   object_code        |-> message.object_code,
   previous_location  |-> previous_location,
   new_location_code  |-> message.location_code,
   event_type         |-> "location_update_processed"]

NoDelivery ==
  [tag |-> 0, body |-> [kind |-> "none"], outcome |-> "none",
   exception |-> "", filtered |-> FALSE, ies4 |-> "not_called",
   solr |-> "not_called", notified |-> FALSE, event |-> FALSE,
   stale |-> FALSE, now |-> 0, calls |-> << >>, lookup |-> "not_called",
   publish |-> "not_called"]

\* construction is over: the configuration was loaded without an error
Constructed ==
  /\ config_file = "ok"
  /\ boot = [program |-> "any", exit_status |-> "none", opened |-> {}]
  /\ mp_pc = "idle"

\* the consumer after __init__ and initialize_rabbitmq, the stores empty
\* initialize_database on a new database file: the tables are empty
initialize_database ==
  /\ asset_locations = {}
  /\ current_asset_positions = {}
  /\ audit_trail = << >>
  /\ scan_seq = 0
  /\ db_last = [op |-> "initialize_database"]

MessageProcessor_init(auto_update) ==
  /\ queue = << >>
  /\ delivery_tag = 0
  /\ mp_clock = 0
  /\ auto_update_location = auto_update
  /\ ies4_entities = << >>
  /\ solr_docs = << >>
  /\ solr_pending = << >>
  /\ processing_stats = [messages_processed |-> 0, successful_updates |-> 0,
                         failed_updates |-> 0]
  /\ location_updates = << >>
  /\ notifications = << >>
  /\ delivery = NoDelivery
  /\ unacked = << >>

----------------------------------------------------------------------------
(* run(): the scan loop *)

Init ==
  /\ pc = "init"
  /\ running = TRUE
  /\ clock = 0
  /\ current_location = None
  /\ last_scans = << >>
  /\ rabbitmq_channel = FALSE
  /\ n_left = 0
  /\ outbox = << >>
  /\ last = [op |-> "constructed"]
  /\ accepted = {}
  /\ located_by = None
  /\ audit = << >>
  /\ MessageProcessor_init(TRUE)
  /\ initialize_database
  /\ Constructed

\* initialize_camera() and initialize_rabbitmq() at the head of run()
Start ==
  /\ pc = "init"
  /\ \E camera_ok \in BOOLEAN, broker_ok \in BOOLEAN :
       IF camera_ok
       THEN /\ pc' = "loop"
            /\ rabbitmq_channel' = broker_ok
            /\ last' = [op |-> "started"]
            /\ UNCHANGED running
       ELSE /\ pc' = "done"
            /\ last' = [op |-> "camera_failed"]
            /\ UNCHANGED <<rabbitmq_channel, running>>
  /\ UNCHANGED <<clock, current_location, last_scans, n_left, outbox,
                 accepted, located_by, audit, cvars, bvars, dvars>>

\* capture_frame() returned (False, None): sleep and continue
CaptureFail ==
  /\ pc = "loop" /\ running
  /\ pc' = "sleep"
  /\ last' = [op |-> "capture_failed"]
  /\ UNCHANGED <<running, clock, current_location, last_scans,
                 rabbitmq_channel, n_left, outbox, accepted, located_by,
                 audit, cvars, bvars, dvars>>

\* capture_frame() and decode_qr_codes() gave n QR codes
Capture ==
  /\ pc = "loop" /\ running
  /\ \E n \in 0..MaxCodes :
       /\ n_left' = n
       /\ pc' = IF n = 0 THEN "sleep" ELSE "frame"
  /\ last' = [op |-> "captured"]
  /\ UNCHANGED <<running, clock, current_location, last_scans,
                 rabbitmq_channel, outbox, accepted, located_by,
                 audit, cvars, bvars, dvars>>

\* variant: a suppressed decode of a location code still sets the location
LocationAfterDuplicate_Sets(qr_data, loc) == LocationAfter(qr_data, loc)

\* the location after a decode the gate suppressed: "continue" skips
\* process_qr_code
LocationAfterDuplicate(qr_data, loc) == loc

\* one pass of "for qr_code in qr_codes"
Decode(qr_data) ==
  /\ pc = "frame" /\ n_left > 0
  /\ n_left' = n_left - 1
  /\ pc' = IF n_left = 1 THEN "sleep" ELSE "frame"
  /\ last_scans' = record_scan(qr_data, last_scans, clock)
  /\ IF is_duplicate_scan(qr_data, last_scans, clock)
     THEN /\ last' = [op |-> "duplicate", qr_data |-> qr_data]
          /\ current_location' =
               LocationAfterDuplicate(qr_data, current_location)
          /\ UNCHANGED <<outbox, accepted, located_by,
                         audit, cvars, bvars, dvars>>
     ELSE process_qr_code(qr_data)
  /\ UNCHANGED <<running, clock, rabbitmq_channel>>

DecodeStep == \E qr_data \in Texts : Decode(qr_data)

\* time.sleep() at the end of an iteration: at least one tick passes
Sleep ==
  /\ pc = "sleep"
  /\ \E t \in (clock + 1)..MaxTime : clock' = t
  /\ pc' = "loop"
  /\ UNCHANGED <<running, current_location, last_scans, rabbitmq_channel,
                 n_left, outbox, last, accepted, located_by,
                 audit, cvars, bvars, dvars>>

\* time passes inside an iteration (blocking publish, decoding)
Tick ==
  /\ pc = "frame"
  /\ clock < MaxTime
  /\ clock' = clock + 1
  /\ UNCHANGED <<pc, running, current_location, last_scans, rabbitmq_channel,
                 n_left, outbox, last, accepted, located_by,
                 audit, cvars, bvars, dvars>>

\* KeyboardInterrupt, then cleanup() in the finally clause
Interrupt ==
  /\ pc \in {"loop", "frame", "sleep"}
  /\ pc' = "done"
  /\ running' = FALSE
  /\ n_left' = 0
  /\ last' = [op |-> "cleanup"]
  /\ UNCHANGED <<clock, current_location, last_scans, rabbitmq_channel, outbox,
                 accepted, located_by, audit, cvars, bvars, dvars>>

Next ==
  \/ Start
  \/ CaptureFail
  \/ Capture
  \/ DecodeStep
  \/ Sleep
  \/ Tick
  \/ Interrupt

Spec == Init /\ [][Next]_vars

----------------------------------------------------------------------------
(* run() with frames that hold several QR codes *)

\* texts of the frames: two location codes and an object code
BurstTexts == {Txt_OP1, Txt_op2, Txt_S500}

\* capture_frame() and decode_qr_codes() gave up to MaxBurst QR codes
CaptureBurst ==
  /\ pc = "loop" /\ running
  /\ \E n \in 0..MaxBurst :
       /\ n_left' = n
       /\ pc' = IF n = 0 THEN "sleep" ELSE "frame"
  /\ last' = [op |-> "captured"]
  /\ UNCHANGED <<running, clock, current_location, last_scans,
                 rabbitmq_channel, outbox, accepted, located_by,
                 audit, cvars, bvars, dvars>>

DecodeBurst == \E qr_data \in BurstTexts : Decode(qr_data)

NextBurst ==
  \/ Start
  \/ CaptureFail
  \/ CaptureBurst
  \/ DecodeBurst
  \/ Sleep
  \/ Tick
  \/ Interrupt

SpecBurst == Init /\ [][NextBurst]_vars

----------------------------------------------------------------------------
(* process_qr_code on its own: one call from any location, any text *)

InitClassify ==
  /\ pc = "call"
  /\ running = TRUE
  /\ clock = 0
  /\ current_location \in {None} \cup DOMAIN locations
  /\ located_by = current_location
  /\ last_scans = << >>
  /\ rabbitmq_channel \in BOOLEAN
  /\ n_left = 0
  /\ outbox = << >>
  /\ last = [op |-> "constructed"]
  /\ accepted = {}
  /\ audit = << >>
  /\ MessageProcessor_init(TRUE)
  /\ initialize_database
  /\ Constructed

Classify ==
  /\ pc = "call"
  /\ pc' = "called"
  /\ \E qr_data \in ClassifyTexts : process_qr_code(qr_data)
  /\ UNCHANGED <<running, clock, last_scans, rabbitmq_channel, n_left>>

NextClassify == Classify

SpecClassify == InitClassify /\ [][NextClassify]_vars

----------------------------------------------------------------------------
(* QRCodeScanner (qr_scanner.py) *)

\* keys of config['qr_codes'] in the order of the file
location_keys == <<Txt_OP1, Txt_OP2, Txt_K1, Txt_k1>>
object_keys   == <<Txt_S500, Txt_KA, Txt_Ka, Txt_op2, Txt_K1>>

QR_LocationPattern(qr_data, location_key) ==
  \/ Contains(qr_data, location_key)
  \/ endswith(location_key, Concat(<<":">>, qr_data))
  \/ endswith(location_key, Concat(<<"|">>, qr_data))

QR_ObjectPattern(qr_data, obj_key) ==
  \/ Contains(qr_data, obj_key)
  \/ endswith(obj_key, Concat(<<"|">>, qr_data))
  \/ startswith(obj_key, Concat(qr_data, <<"|">>))

QR_IsLocation(qr_data) ==
  \/ qr_data \in DOMAIN locations
  \/ \E i \in 1..Len(location_keys) : QR_LocationPattern(qr_data, location_keys[i])

\* object_info after the lookup; the empty record stands for None
QR_ObjectInfo(qr_data) ==
  IF qr_data \in DOMAIN objects THEN objects[qr_data]
  ELSE IF \E i \in 1..Len(object_keys) : QR_ObjectPattern(qr_data, object_keys[i])
       THEN objects[object_keys[
              CHOOSE i \in 1..Len(object_keys) :
                /\ QR_ObjectPattern(qr_data, object_keys[i])
                /\ \A j \in 1..(i - 1) : ~QR_ObjectPattern(qr_data, object_keys[j])]]
       ELSE [name |-> "", type |-> ""]

QR_HasObject(qr_data) == QR_ObjectInfo(qr_data) # [name |-> "", type |-> ""]

QR_create_scan_message(object_code, location_code, now) ==
  [timestamp     |-> now,
   object_code   |-> object_code,
   object_info   |-> Get(objects, object_code, [name |-> "", type |-> ""]),
   location_code |-> location_code,
   location_info |-> Get(locations, location_code, ""),
   event_type    |-> "object_location_update",
   source        |-> "qr_scanner"]

\* the logger calls of send_rabbitmq_message of qr_scanner.py
QR_send_audit(message, channel, outcome) ==
  IF outcome = "delivered"
  THEN <<[event |-> "sent", message |-> message, serialized |-> FALSE]>>
  ELSE IF channel
       THEN <<[event |-> "send_failed", message |-> message,
               serialized |-> FALSE],
              [event |-> "SCAN EVENT (failed to send)", message |-> message,
               serialized |-> TRUE]>>
       ELSE <<[event |-> "not_available", message |-> message,
               serialized |-> FALSE],
              [event |-> "SCAN EVENT", message |-> message,
               serialized |-> TRUE]>>

\* the logger calls of send_rabbitmq_message of picamera2_scanner.py
PI_send_audit(message, outcome) ==
  IF outcome = "delivered"
  THEN <<[event |-> "sent", message |-> message, serialized |-> FALSE]>>
  ELSE <<[event |-> "send_failed", message |-> message,
          serialized |-> FALSE]>>

QR_ResultOf(qr_data, loc) ==
  IF QR_IsLocation(qr_data)
  THEN [type |-> "location", code |-> qr_data]
  ELSE IF QR_HasObject(qr_data) /\ Truthy(loc)
       THEN [type |-> "object", code |-> qr_data, location |-> loc]
       ELSE NoResult

QR_process_qr_code(qr_data) ==
  \E outcome \in send_outcomes(rabbitmq_channel) :
    /\ current_location' =
         IF QR_IsLocation(qr_data) THEN qr_data ELSE current_location
    /\ outbox' =
         IF ~QR_IsLocation(qr_data) /\ QR_HasObject(qr_data)
            /\ Truthy(current_location)
         THEN Append(outbox,
                [message |-> QR_create_scan_message(qr_data, current_location,
                                                    clock),
                 outcome |-> outcome])
         ELSE outbox
    /\ audit' =
         IF ~QR_IsLocation(qr_data) /\ QR_HasObject(qr_data)
            /\ Truthy(current_location)
         THEN audit \o QR_send_audit(QR_create_scan_message(qr_data,
                                        current_location, clock),
                                     rabbitmq_channel, outcome)
         ELSE audit
    /\ UNCHANGED <<cvars, bvars, dvars>>
    /\ last' = [op |-> "processed", qr_data |-> qr_data,
                location_before |-> current_location,
                result |-> QR_ResultOf(qr_data, current_location)]
    /\ accepted' = accepted \cup {<<qr_data, clock>>}
    /\ located_by' =
         IF QR_IsLocation(qr_data) THEN qr_data ELSE located_by

\* the state after __init__: camera opened, broker connected or not
InitQR ==
  /\ pc = "loop"
  /\ running = TRUE
  /\ clock = 0
  /\ current_location = None
  /\ last_scans = << >>
  /\ rabbitmq_channel \in BOOLEAN
  /\ n_left = 0
  /\ outbox = << >>
  /\ last = [op |-> "constructed"]
  /\ accepted = {}
  /\ located_by = None
  /\ audit = << >>
  /\ MessageProcessor_init(TRUE)
  /\ initialize_database
  /\ Constructed

\* camera.read() failed: sleep and continue
QR_CaptureFail ==
  /\ pc = "loop" /\ running
  /\ pc' = "sleep"
  /\ last' = [op |-> "capture_failed"]
  /\ UNCHANGED <<running, clock, current_location, last_scans,
                 rabbitmq_channel, n_left, outbox, accepted, located_by,
                 audit, cvars, bvars, dvars>>

QR_Capture ==
  /\ pc = "loop" /\ running
  /\ \E n \in 0..MaxCodes :
       /\ n_left' = n
       /\ pc' = IF n = 0 THEN "sleep" ELSE "frame"
  /\ last' = [op |-> "captured"]
  /\ UNCHANGED <<running, clock, current_location, last_scans,
                 rabbitmq_channel, outbox, accepted, located_by,
                 audit, cvars, bvars, dvars>>

QR_Decode(qr_data) ==
  /\ pc = "frame" /\ n_left > 0
  /\ n_left' = n_left - 1
  /\ pc' = IF n_left = 1 THEN "sleep" ELSE "frame"
  /\ last_scans' = record_scan(qr_data, last_scans, clock)
  /\ IF is_duplicate_scan(qr_data, last_scans, clock)
     THEN /\ last' = [op |-> "duplicate", qr_data |-> qr_data]
          /\ UNCHANGED <<current_location, outbox, accepted, located_by,
                         audit, cvars, bvars, dvars>>
     ELSE QR_process_qr_code(qr_data)
  /\ UNCHANGED <<running, clock, rabbitmq_channel>>

QR_DecodeStep == \E qr_data \in TextsQR : QR_Decode(qr_data)

\* time.sleep(scan_interval)
QR_Sleep ==
  /\ pc = "sleep"
  /\ \E t \in (clock + 1)..MaxTime : clock' = t
  /\ pc' = "loop"
  /\ UNCHANGED <<running, current_location, last_scans, rabbitmq_channel,
                 n_left, outbox, last, accepted, located_by,
                 audit, cvars, bvars, dvars>>

\* SIGINT / SIGTERM
signal_handler ==
  /\ pc \in {"loop", "frame", "sleep"}
  /\ running
  /\ running' = FALSE
  /\ UNCHANGED <<pc, clock, current_location, last_scans, rabbitmq_channel,
                 n_left, outbox, last, accepted, located_by,
                 audit, cvars, bvars, dvars>>

\* "while self.running" is false: run() returns and main() calls cleanup()
QR_Exit ==
  /\ pc = "loop" /\ ~running
  /\ pc' = "done"
  /\ last' = [op |-> "cleanup"]
  /\ UNCHANGED <<running, clock, current_location, last_scans,
                 rabbitmq_channel, n_left, outbox, accepted, located_by,
                 audit, cvars, bvars, dvars>>

NextQR ==
  \/ QR_CaptureFail
  \/ QR_Capture
  \/ QR_DecodeStep
  \/ QR_Sleep
  \/ signal_handler
  \/ QR_Exit

SpecQR == InitQR /\ [][NextQR]_vars

----------------------------------------------------------------------------
(* MessageProcessor: the consumer of the scan_results queue *)

InitConsumer ==
  /\ pc = "done"
  /\ running = FALSE
  /\ clock = 0
  /\ current_location = None
  /\ last_scans = << >>
  /\ rabbitmq_channel = FALSE
  /\ n_left = 0
  /\ outbox = << >>
  /\ last = [op |-> "constructed"]
  /\ accepted = {}
  /\ located_by = None
  /\ audit = << >>
  /\ \E auto_update \in BOOLEAN : MessageProcessor_init(auto_update)
  /\ initialize_database
  /\ Constructed

\* a scanner publishes a body to the exchange; the queue keeps it
Publish ==
  /\ Len(queue) < MaxQueue
  /\ \E body \in Bodies : queue' = Append(queue, body)
  /\ UNCHANGED <<delivery_tag, mp_clock, auto_update_location, ies4_entities,
                 solr_docs, solr_pending, processing_stats, location_updates,
                 notifications, delivery, mp_pc, unacked>>
  /\ UNCHANGED <<svars, bvars, dvars>>

\* time passes at the consumer
MP_Tick ==
  /\ mp_clock < MaxNow
  /\ mp_clock' = mp_clock + 1
  /\ UNCHANGED <<queue, delivery_tag, auto_update_location, ies4_entities,
                 solr_docs, solr_pending, processing_stats, location_updates,
                 notifications, delivery, mp_pc, unacked>>
  /\ UNCHANGED <<svars, bvars, dvars>>

\* the callback of basic_consume for the body at the head of the queue;
\* the *_ok inputs are the answers of the services it calls
\* variant: the filtered branch acks and falls through to the ack at the end
settle_calls_NoReturn(exception, filtered) ==
  IF exception # "" THEN <<"basic_nack">>
  ELSE IF filtered THEN <<"basic_ack", "basic_ack">>
  ELSE <<"basic_ack">>

\* the basic_ack / basic_nack calls of one process_scan_message: the ack of
\* the filtered branch (followed by return) or of the end of the try block,
\* or the nack of the except clause that caught the exception
settle_calls(exception, filtered) ==
  IF exception # "" THEN <<"basic_nack">> ELSE <<"basic_ack">>

\* variant: a failed update is not counted as processed
count_delivery_SuccessOnly(stats, success) ==
  IF success
  THEN [messages_processed |-> stats.messages_processed + 1,
        successful_updates |-> stats.successful_updates + 1,
        failed_updates     |-> stats.failed_updates]
  ELSE [stats EXCEPT !.failed_updates = @ + 1]

\* processing_stats after a delivery that reached process_location_update
count_delivery(stats, success) ==
  [messages_processed |-> stats.messages_processed + 1,
   successful_updates |-> stats.successful_updates
                            + (IF success THEN 1 ELSE 0),
   failed_updates     |-> stats.failed_updates
                            + (IF success THEN 0 ELSE 1)]

process_scan_message ==
  /\ mp_pc = "idle"
  /\ queue # << >>
  /\ delivery_tag < MaxDeliveries
  /\ delivery_tag' = delivery_tag + 1
  /\ \E ies4_ok \in BOOLEAN, solr_ok \in BOOLEAN, commit_ok \in BOOLEAN,
        smtp_ok \in BOOLEAN, lookup_ok \in BOOLEAN, publish_ok \in BOOLEAN :
       LET body      == Head(queue)
           exception == parse_exception(body)
           filtered  == /\ exception = ""
                        /\ ~should_process_message(body, auto_update_location,
                                                   mp_clock)
           updating  == exception = "" /\ ~filtered
           message   == body.fields
           requests  == IF updating THEN store_calls(body, ies4_ok, solr_ok)
                        ELSE << >>
           ies4_success == InSeq("ies4_post", requests) /\ ies4_ok
           solr_posted  == InSeq("solr_post", requests) /\ solr_ok
           solr_success == InSeq("solr_commit", requests) /\ commit_ok
           success   == /\ updating
                        /\ process_location_update(ies4_success, solr_success)
           notifying == success /\ should_send_notification(body)
           pending   == IF solr_posted
                        THEN solr_add(solr_pending,
                                      solr_update_data(message, mp_clock))
                        ELSE solr_pending
           docs      == IF solr_success THEN solr_add(solr_docs, pending)
                        ELSE solr_docs
           notified  == notifying /\ smtp_ok
           event     == success /\ event_emitted(body, lookup_ok, publish_ok)
           outcome   == IF exception = "" THEN "ack"
                        ELSE IF exception = "JSONDecodeError"
                             THEN "nack_drop"
                             ELSE "nack_requeue"
           calls     == requests
                        \o (IF notifying THEN <<"smtp">> ELSE << >>)
                        \o (IF success THEN <<"solr_select">> ELSE << >>)
                        \o (IF success /\ HasKey(body, "location_info")
                            THEN <<"publish_update">> ELSE << >>)
                        \o settle_calls(exception, filtered)
       IN
         /\ ies4_entities' =
              IF ies4_success
              THEN (message.object_code :> ies4_payload(message))
                     @@ ies4_entities
              ELSE ies4_entities
         /\ solr_pending' = IF solr_success THEN << >> ELSE pending
         /\ solr_docs' = docs
         /\ processing_stats' =
              IF updating THEN count_delivery(processing_stats, success)
              ELSE processing_stats
         /\ notifications' =
              IF notified
              THEN Append(notifications,
                          [object_code   |-> message.object_code,
                           location_code |-> message.location_code])
              ELSE notifications
         /\ location_updates' =
              IF event
              THEN Append(location_updates,
                          location_update_message(message,
                            get_previous_location(docs, message.object_code,
                                                  lookup_ok)))
              ELSE location_updates
         /\ queue' = IF outcome = "nack_requeue" THEN queue ELSE Tail(queue)
         /\ delivery' =
              [tag |-> delivery_tag + 1, body |-> body, outcome |-> outcome,
               exception |-> exception, filtered |-> filtered,
               ies4 |-> IF ~updating THEN "not_called"
                        ELSE IF ies4_success THEN "ok" ELSE "failed",
               solr |-> IF ~updating THEN "not_called"
                        ELSE IF solr_success THEN "ok" ELSE "failed",
               notified |-> notified, event |-> event,
               lookup |-> lookup_outcome(success, lookup_ok),
               publish |-> publish_outcome(success, body, publish_ok),
               stale |-> /\ exception = ""
                         /\ stale_warning(body, auto_update_location,
                                          mp_clock),
               now |-> mp_clock, calls |-> calls]
  /\ UNCHANGED <<mp_clock, auto_update_location, mp_pc, unacked>>
  /\ UNCHANGED <<svars, bvars, dvars>>

NextConsumer ==
  \/ Publish
  \/ MP_Tick
  \/ process_scan_message

SpecConsumer == InitConsumer /\ [][NextConsumer]_vars

----------------------------------------------------------------------------
(* Construction of the three programs: load_config and what follows it *)

\* what the configuration file can hold: a valid configuration, no file,
\* text that is not JSON, or JSON that lacks one required section
ConfigFiles ==
  {"ok", "missing_file", "invalid_json", "missing_qr_codes",
   "missing_scanner_settings", "missing_processing_rules"}

\* CompleteBookwormScanner.load_config calls sys.exit(1)
load_config_exits(config) == config # "ok"

\* QRCodeScanner.load_config calls sys.exit(1)
QR_load_config_exits(config) == config # "ok"

\* MessageProcessor.__init__ ends by an exception that nothing catches:
\* load_config uses self.logger before it is assigned (AttributeError) when
\* the file is missing or is not JSON, and logging.basicConfig reads
\* config['scanner_settings'] (KeyError); no other section is looked at
MP_init_raises(config) ==
  config \in {"missing_file", "invalid_json", "missing_scanner_settings"}

NotStarted == [program |-> "none", exit_status |-> "none", opened |-> {}]

InitStartup ==
  /\ pc = "new"
  /\ running = TRUE
  /\ clock = 0
  /\ current_location = None
  /\ last_scans = << >>
  /\ rabbitmq_channel = FALSE
  /\ n_left = 0
  /\ outbox = << >>
  /\ last = [op |-> "constructed"]
  /\ accepted = {}
  /\ located_by = None
  /\ audit = << >>
  /\ MessageProcessor_init(TRUE)
  /\ initialize_database
  /\ mp_pc = "new"
  /\ config_file \in ConfigFiles
  /\ boot = NotStarted

\* CompleteBookwormScanner(): logging, then load_config; the camera and the
\* broker are left to run()
Scanner_Construct ==
  /\ boot = NotStarted
  /\ IF load_config_exits(config_file)
     THEN /\ pc' = "exited"
          /\ boot' = [program |-> "scanner", exit_status |-> "1",
                      opened |-> {}]
     ELSE /\ pc' = "init"
          /\ boot' = [program |-> "scanner", exit_status |-> "none",
                      opened |-> {}]
  /\ UNCHANGED <<running, clock, current_location, last_scans,
                 rabbitmq_channel, n_left, outbox, last, accepted,
                 located_by, audit, cvars, config_file, dvars>>

\* QRCodeScanner(): load_config, then initialize_camera (fatal when it
\* fails) and initialize_rabbitmq
QR_Construct ==
  /\ boot = NotStarted
  /\ IF QR_load_config_exits(config_file)
     THEN /\ pc' = "exited"
          /\ boot' = [program |-> "qr_scanner", exit_status |-> "1",
                      opened |-> {}]
          /\ UNCHANGED rabbitmq_channel
     ELSE \E camera_ok \in BOOLEAN, broker_ok \in BOOLEAN :
            IF camera_ok
            THEN /\ pc' = "loop"
                 /\ rabbitmq_channel' = broker_ok
                 /\ boot' = [program |-> "qr_scanner",
                             exit_status |-> "none",
                             opened |-> {"camera", "broker"}]
            ELSE /\ pc' = "exited"
                 /\ boot' = [program |-> "qr_scanner", exit_status |-> "1",
                             opened |-> {"camera"}]
                 /\ UNCHANGED rabbitmq_channel
  /\ UNCHANGED <<running, clock, current_location, last_scans, n_left,
                 outbox, last, accepted, located_by, audit, cvars,
                 config_file, dvars>>

\* MessageProcessor(): load_config, logging, then initialize_rabbitmq, which
\* calls sys.exit(1) when the broker cannot be reached
MP_Construct ==
  /\ boot = NotStarted
  /\ IF MP_init_raises(config_file)
     THEN /\ mp_pc' = "exited"
          /\ boot' = [program |-> "consumer", exit_status |-> "1",
                      opened |-> {}]
     ELSE \E broker_ok \in BOOLEAN :
            /\ mp_pc' = IF broker_ok THEN "idle" ELSE "exited"
            /\ boot' = [program |-> "consumer",
                        exit_status |-> IF broker_ok THEN "none" ELSE "1",
                        opened |-> {"broker"}]
  /\ UNCHANGED <<queue, delivery_tag, mp_clock, auto_update_location,
                 ies4_entities, solr_docs, solr_pending, processing_stats,
                 location_updates, notifications, delivery, unacked>>
  /\ UNCHANGED <<svars, config_file, dvars>>

NextStartup ==
  \/ Scanner_Construct
  \/ QR_Construct
  \/ MP_Construct
  \/ Publish
  \/ MP_Tick
  \/ process_scan_message

SpecStartup == InitStartup /\ [][NextStartup]_vars

----------------------------------------------------------------------------
(* MessageProcessor step by step: the broker pushes, the callback runs *)

\* basic_qos(prefetch_count=1)
prefetch_count == 1

\* variant: the broker pushes one message more than the prefetch count
may_deliver_OneMore(n_unacked) == n_unacked < prefetch_count + 1

\* the broker pushes only while fewer than prefetch_count deliveries of the
\* consumer are unacknowledged
may_deliver(n_unacked) == n_unacked < prefetch_count

InitFlight ==
  /\ pc = "done"
  /\ running = FALSE
  /\ clock = 0
  /\ current_location = None
  /\ last_scans = << >>
  /\ rabbitmq_channel = FALSE
  /\ n_left = 0
  /\ outbox = << >>
  /\ last = [op |-> "constructed"]
  /\ accepted = {}
  /\ located_by = None
  /\ audit = << >>
  /\ MessageProcessor_init(TRUE)
  /\ initialize_database
  /\ Constructed

\* the broker pushes the head of the queue to the consumer while fewer than
\* prefetch_count of its deliveries are unacknowledged
basic_deliver ==
  /\ queue # << >>
  /\ may_deliver(Len(unacked))
  /\ unacked' = Append(unacked, Head(queue))
  /\ queue' = Tail(queue)
  /\ UNCHANGED <<delivery_tag, mp_clock, auto_update_location, ies4_entities,
                 solr_docs, solr_pending, processing_stats, location_updates,
                 notifications, delivery, mp_pc>>
  /\ UNCHANGED <<svars, bvars, dvars>>

\* start_consuming calls process_scan_message for the oldest pushed body:
\* json.loads, the log line, should_process_message
on_message ==
  /\ mp_pc = "idle"
  /\ unacked # << >>
  /\ delivery_tag < MaxDeliveries
  /\ delivery_tag' = delivery_tag + 1
  /\ LET body      == Head(unacked)
         exception == parse_exception(body)
         filtered  == /\ exception = ""
                      /\ ~should_process_message(body, auto_update_location,
                                                 mp_clock)
     IN /\ delivery' = [NoDelivery EXCEPT
                          !.tag = delivery_tag + 1, !.body = body,
                          !.outcome = "pending", !.exception = exception,
                          !.filtered = filtered, !.now = mp_clock,
                          !.stale = /\ exception = ""
                                    /\ stale_warning(body,
                                         auto_update_location, mp_clock)]
        /\ mp_pc' = IF exception # "" \/ filtered THEN "finish" ELSE "ies4"
  /\ UNCHANGED <<queue, mp_clock, auto_update_location, ies4_entities,
                 solr_docs, solr_pending, processing_stats, location_updates,
                 notifications, unacked>>
  /\ UNCHANGED <<svars, bvars, dvars>>

\* update_tencent_ies4 inside the callback
FL_update_tencent_ies4 ==
  /\ mp_pc = "ies4"
  /\ mp_pc' = "solr"
  /\ \E ies4_ok \in BOOLEAN :
       LET body    == delivery.body
           posted  == HasUpdateKeys(body)
           success == posted /\ ies4_ok
       IN /\ ies4_entities' =
               IF success
               THEN (body.fields.object_code :> ies4_payload(body.fields))
                      @@ ies4_entities
               ELSE ies4_entities
          /\ delivery' = [delivery EXCEPT
                            !.ies4 = IF success THEN "ok" ELSE "failed",
                            !.calls = IF posted THEN Append(@, "ies4_post")
                                      ELSE @]
  /\ UNCHANGED <<queue, delivery_tag, mp_clock, auto_update_location,
                 solr_docs, solr_pending, processing_stats, location_updates,
                 notifications, unacked>>
  /\ UNCHANGED <<svars, bvars, dvars>>

\* update_apache_solr inside the callback
FL_update_apache_solr ==
  /\ mp_pc = "solr"
  /\ mp_pc' = "finish"
  /\ \E solr_ok \in BOOLEAN, commit_ok \in BOOLEAN :
       LET body    == delivery.body
           posted  == HasUpdateKeys(body) /\ solr_ok
           success == posted /\ commit_ok
           pending == IF posted
                      THEN solr_add(solr_pending,
                                    solr_update_data(body.fields, mp_clock))
                      ELSE solr_pending
       IN /\ solr_pending' = IF success THEN << >> ELSE pending
          /\ solr_docs' = IF success THEN solr_add(solr_docs, pending)
                          ELSE solr_docs
          /\ delivery' = [delivery EXCEPT
                            !.solr = IF success THEN "ok" ELSE "failed",
                            !.calls = @ \o (IF HasUpdateKeys(body)
                                            THEN <<"solr_post">> ELSE << >>)
                                        \o (IF posted THEN <<"solr_commit">>
                                            ELSE << >>)]
  /\ UNCHANGED <<queue, delivery_tag, mp_clock, auto_update_location,
                 ies4_entities, processing_stats, location_updates,
                 notifications, unacked>>
  /\ UNCHANGED <<svars, bvars, dvars>>

\* the rest of the callback: counters, notification, location update, and
\* basic_ack or basic_nack, which ends the delivery at the broker
FL_finish ==
  /\ mp_pc = "finish"
  /\ mp_pc' = "idle"
  /\ \E smtp_ok \in BOOLEAN, lookup_ok \in BOOLEAN, publish_ok \in BOOLEAN :
       LET body      == delivery.body
           updating  == delivery.exception = "" /\ ~delivery.filtered
           success   == /\ updating
                        /\ process_location_update(delivery.ies4 = "ok",
                                                   delivery.solr = "ok")
           notifying == success /\ should_send_notification(body)
           event     == success /\ event_emitted(body, lookup_ok, publish_ok)
           outcome   == IF delivery.exception = "" THEN "ack"
                        ELSE IF delivery.exception = "JSONDecodeError"
                             THEN "nack_drop"
                             ELSE "nack_requeue"
       IN /\ processing_stats' =
               IF updating THEN count_delivery(processing_stats, success)
               ELSE processing_stats
          /\ notifications' =
               IF notifying /\ smtp_ok
               THEN Append(notifications,
                           [object_code   |-> body.fields.object_code,
                            location_code |-> body.fields.location_code])
               ELSE notifications
          /\ location_updates' =
               IF event
               THEN Append(location_updates,
                           location_update_message(body.fields,
                             get_previous_location(solr_docs,
                               body.fields.object_code, lookup_ok)))
               ELSE location_updates
          /\ delivery' = [delivery EXCEPT
                            !.outcome = outcome,
                            !.notified = notifying /\ smtp_ok,
                            !.event = event,
                            !.lookup = lookup_outcome(success, lookup_ok),
                            !.publish =
                              publish_outcome(success, body, publish_ok),
                            !.calls = @ \o (IF notifying THEN <<"smtp">>
                                            ELSE << >>)
                                        \o (IF success THEN <<"solr_select">>
                                            ELSE << >>)
                                        \o (IF success
                                               /\ HasKey(body, "location_info")
                                            THEN <<"publish_update">>
                                            ELSE << >>)
                                        \o settle_calls(delivery.exception,
                                                        delivery.filtered)]
          /\ unacked' = Tail(unacked)
          /\ queue' = IF outcome = "nack_requeue" THEN <<body>> \o queue
                      ELSE queue
  /\ UNCHANGED <<delivery_tag, mp_clock, auto_update_location, ies4_entities,
                 solr_docs, solr_pending>>
  /\ UNCHANGED <<svars, bvars, dvars>>

NextFlight ==
  \/ Publish
  \/ basic_deliver
  \/ on_message
  \/ FL_update_tencent_ies4
  \/ FL_update_apache_solr
  \/ FL_finish

SpecFlight == InitFlight /\ [][NextFlight]_vars

----------------------------------------------------------------------------
(* DatabaseUpdateService: the status of a processed scan *)

\* the status update_processing_status writes for a scan
processing_status(ies4_success, solr_success) ==
  IF ies4_success /\ solr_success THEN "success"
  ELSE IF ies4_success \/ solr_success THEN "partial"
  ELSE "failed"

\* the scans handed to record_asset_scan
ScanData ==
  [object_code : {Txt_S500, Txt_KA}, location_code : {Txt_OP1, Txt_OP2},
   timestamp : 0..MaxStamp]

RowsOf(table, object_code) == {r \in table : r.object_code = object_code}

\* SELECT current_location_code FROM current_asset_positions WHERE
\* object_code = ?, then fetchone(): None when there is no row
old_location(table, object_code) ==
  IF RowsOf(table, object_code) = {} THEN None
  ELSE (CHOOSE r \in RowsOf(table, object_code) : TRUE).current_location_code

\* the row of the INSERT INTO asset_locations; processing_status has the
\* default 'pending'
scan_row(id, scan_data) ==
  [id                |-> id,
   object_code       |-> scan_data.object_code,
   location_code     |-> scan_data.location_code,
   scan_timestamp    |-> scan_data.timestamp,
   processing_status |-> "pending"]

\* the VALUES of the INSERT OR REPLACE: first_seen and total_moves come from
\* the row the table holds for the object, when it holds one
position_row(table, scan_data) ==
  LET held == RowsOf(table, scan_data.object_code)
      row  == CHOOSE r \in held : TRUE
  IN [object_code           |-> scan_data.object_code,
      current_location_code |-> scan_data.location_code,
      last_scan_timestamp   |-> scan_data.timestamp,
      first_seen  |-> IF held = {} THEN scan_data.timestamp
                      ELSE row.first_seen,
      total_moves |-> IF held = {} THEN 1 ELSE row.total_moves + 1]

\* variant: a plain INSERT that keeps the row of the same object_code
insert_or_replace_Plain(table, row) == table \cup {row}

\* INSERT OR REPLACE on the primary key object_code
insert_or_replace(table, row) ==
  {r \in table : r.object_code # row.object_code} \cup {row}

\* the INSERT INTO audit_trail, made when the location changed
audit_rows(scan_data, old) ==
  IF old # scan_data.location_code
  THEN <<[object_code       |-> scan_data.object_code,
          event_type        |-> "location_change",
          old_location_code |-> old,
          new_location_code |-> scan_data.location_code,
          timestamp         |-> scan_data.timestamp]>>
  ELSE << >>

\* one call of record_asset_scan: a single transaction, rolled back as a
\* whole when a statement raises
record_asset_scan ==
  /\ scan_seq < MaxScans
  /\ \E scan_data \in ScanData, db_ok \in BOOLEAN :
       IF db_ok
       THEN /\ scan_seq' = scan_seq + 1
            /\ asset_locations' =
                 asset_locations \cup {scan_row(scan_seq + 1, scan_data)}
            /\ current_asset_positions' =
                 insert_or_replace(current_asset_positions,
                   position_row(current_asset_positions, scan_data))
            /\ audit_trail' =
                 audit_trail
                   \o audit_rows(scan_data,
                        old_location(current_asset_positions,
                                     scan_data.object_code))
            /\ db_last' = [op |-> "record_asset_scan",
                           scan_data |-> scan_data, returned |-> TRUE]
       ELSE /\ db_last' = [op |-> "record_asset_scan",
                           scan_data |-> scan_data, returned |-> FALSE]
            /\ UNCHANGED <<asset_locations, current_asset_positions,
                           audit_trail, scan_seq>>
  /\ UNCHANGED <<svars, cvars, bvars>>

\* one call of update_processing_status
update_processing_status ==
  /\ \E object_code \in {Txt_S500, Txt_KA}, timestamp \in 0..MaxStamp,
        ies4_success \in BOOLEAN, solr_success \in BOOLEAN :
       asset_locations' =
         {IF r.object_code = object_code /\ r.scan_timestamp = timestamp
          THEN [r EXCEPT !.processing_status =
                           processing_status(ies4_success, solr_success)]
          ELSE r : r \in asset_locations}
  /\ db_last' = [op |-> "update_processing_status"]
  /\ UNCHANGED <<current_asset_positions, audit_trail, scan_seq>>
  /\ UNCHANGED <<svars, cvars, bvars>>

\* one call of cleanup_old_data: scans before the cutoff date with status
\* 'success' are deleted
cleanup_old_data ==
  /\ \E cutoff_date \in 0..(MaxStamp + 1) :
       asset_locations' =
         {r \in asset_locations :
            ~(r.scan_timestamp < cutoff_date
              /\ r.processing_status = "success")}
  /\ db_last' = [op |-> "cleanup_old_data"]
  /\ UNCHANGED <<current_asset_positions, audit_trail, scan_seq>>
  /\ UNCHANGED <<svars, cvars, bvars>>

InitDatabase ==
  /\ pc = "done"
  /\ running = FALSE
  /\ clock = 0
  /\ current_location = None
  /\ last_scans = << >>
  /\ rabbitmq_channel = FALSE
  /\ n_left = 0
  /\ outbox = << >>
  /\ last = [op |-> "constructed"]
  /\ accepted = {}
  /\ located_by = None
  /\ audit = << >>
  /\ MessageProcessor_init(TRUE)
  /\ initialize_database
  /\ Constructed

NextDatabase ==
  \/ record_asset_scan
  \/ update_processing_status
  \/ cleanup_old_data

SpecDatabase == InitDatabase /\ [][NextDatabase]_vars

----------------------------------------------------------------------------
(* Vocabulary of the properties *)

\* the step is one pass of the "for qr_code in qr_codes" loop
IsDecodeStep ==
  pc = "frame" /\ n_left' = n_left - 1 /\ last'.op \in {"duplicate", "processed"}

MatchesLocation(r) ==
  r \in DOMAIN locations \/ upper(strip(r)) \in DOMAIN locations

MatchesObject(r) ==
  r \in DOMAIN objects \/ upper(strip(r)) \in DOMAIN objects

AcceptTimes(r) == {p[2] : p \in {q \in accepted : q[1] = r}}

LatestAccept(r) == CHOOSE t \in AcceptTimes(r) : \A u \in AcceptTimes(r) : u <= t

LastMessage(box) == box[Len(box)].message

----------------------------------------------------------------------------
(* Properties of the scan loop of CompleteBookwormScanner *)

\* C1: a scan message is built and handed to the publisher only in a step in
\* which current_location is set; an accepted decode of an object code (a
\* text that matches an object key and is not taken as a location) made while
\* current_location is unset returns 'object_no_location' and adds no
\* message, neither delivered nor logged.
C1_PublishOnlyWithLocation ==
  [][ /\ (outbox' # outbox => Truthy(current_location))
      /\ ( ( /\ IsDecodeStep
              /\ last'.op = "processed"
              /\ MatchesObject(last'.qr_data)
              /\ ~MatchesLocation(last'.qr_data)
              /\ ~Truthy(current_location) )
           => ( /\ last'.result.type = "object_no_location"
                /\ outbox' = outbox ) ) ]_vars

C1_Witness ==
  /\ last.op = "processed"
  /\ last.qr_data \in {Txt_S500, Txt_s500}
  /\ last.location_before = None
  /\ last.result.type = "object_no_location"
  /\ outbox = << >>

\* C2: a decode of r made less than duplicate_scan_window_seconds after a
\* decode of r that was passed on to process_qr_code is not passed on: it is
\* not classified and changes neither current_location nor the messages.
C2_SuppressedWithinWindow ==
  [][ ( /\ IsDecodeStep
        /\ \E p \in accepted :
             /\ p[1] = last'.qr_data
             /\ p[2] <= clock
             /\ clock - p[2] < duplicate_scan_window_seconds )
      => ( /\ last'.op = "duplicate"
           /\ accepted' = accepted
           /\ current_location' = current_location
           /\ outbox' = outbox ) ]_vars

C2_Witness ==
  /\ last.op = "duplicate"
  /\ Truthy(current_location)
  /\ outbox # << >>
  /\ \E p \in accepted :
       /\ p[1] = last.qr_data
       /\ p[2] < clock
       /\ clock - p[2] < duplicate_scan_window_seconds

\* C3: once a decode of r was accepted at time t, a decode of r before
\* t + window is suppressed and a decode of r at or after t + window is
\* accepted and becomes the new start of the window; so OP1, S500, S500 at
\* once, S500 after the window give exactly two messages S500 at OP1.
C3_Step ==
  ( IsDecodeStep /\ AcceptTimes(last'.qr_data) # {} )
  => LET r == last'.qr_data
         t == LatestAccept(last'.qr_data)
     IN /\ ( clock < t + duplicate_scan_window_seconds
             => last'.op = "duplicate" /\ accepted' = accepted )
        /\ ( clock >= t + duplicate_scan_window_seconds
             => /\ last'.op = "processed"
                /\ accepted' = accepted \cup {<<r, clock>>}
                /\ last_scans'[r] = clock )

C3_Scenario ==
  \A t0, t1, t2 \in 0..MaxTime :
    ( /\ t0 < t1 /\ t1 < t2
      /\ accepted = {<<Txt_OP1, t0>>, <<Txt_S500, t1>>, <<Txt_S500, t2>>} )
    => /\ Len(outbox) = 2
       /\ \A i \in 1..2 :
            /\ outbox[i].message.object_code = Txt_S500
            /\ outbox[i].message.location_code = Txt_OP1
       /\ outbox[1].message.timestamp = t1
       /\ outbox[2].message.timestamp = t2

C3_WindowRearmed == [][C3_Step]_vars /\ []C3_Scenario

C3_Witness ==
  /\ \E t0, t1, t2 \in 0..MaxTime :
       /\ t0 < t1 /\ t1 + duplicate_scan_window_seconds <= t2
       /\ accepted = {<<Txt_OP1, t0>>, <<Txt_S500, t1>>, <<Txt_S500, t2>>}
  /\ Len(outbox) = 2
  /\ last.op = "processed" /\ last.qr_data = Txt_S500

\* C4 as stated: every scan message carries the location of the latest
\* accepted location decode, and for every location key L and object key O,
\* processing L and then O gives exactly one message, O at L.
C4_Part1 ==
  (outbox' # outbox)
  => /\ Len(outbox') = Len(outbox) + 1
     /\ SubSeq(outbox', 1, Len(outbox)) = outbox
     /\ LastMessage(outbox').location_code = located_by

C4_LThenO(r) ==
  /\ Len(outbox') = Len(outbox) + 1
  /\ LastMessage(outbox').location_code = located_by
  /\ LastMessage(outbox').object_code = r

C4_Original ==
  [][ /\ C4_Part1
      /\ ( ( /\ IsDecodeStep /\ last'.op = "processed"
              /\ last'.qr_data \in DOMAIN objects
              /\ located_by \in DOMAIN locations )
           => C4_LThenO(last'.qr_data) ) ]_vars

\* C4 amended: the same, for every object key O that matches no location
\* key, neither as it is nor normalized.
C4_LocationOfLatestDecode ==
  [][ /\ C4_Part1
      /\ ( ( /\ IsDecodeStep /\ last'.op = "processed"
              /\ last'.qr_data \in DOMAIN objects
              /\ ~MatchesLocation(last'.qr_data)
              /\ located_by \in DOMAIN locations )
           => C4_LThenO(last'.qr_data) ) ]_vars

C4_Witness ==
  /\ last.op = "processed"
  /\ last.qr_data = Txt_S500
  /\ last.result.type = "object"
  /\ located_by = Txt_OP2
  /\ Len(outbox) = 1
  /\ outbox[1].message.location_code = Txt_OP2
  /\ outbox[1].message.object_code = Txt_S500

\* C6: current_location is unset or a key of the location table, in every
\* scanner variant.
C6_LocationIsKey ==
  current_location = None \/ current_location \in DOMAIN locations

\* C8 as stated: a decode of a text that matches no location key and no
\* object key changes neither current_location nor last_scans nor the
\* messages.
C8_Original ==
  [][ ( /\ IsDecodeStep
        /\ ~MatchesLocation(last'.qr_data)
        /\ ~MatchesObject(last'.qr_data) )
      => ( /\ current_location' = current_location
           /\ last_scans' = last_scans
           /\ outbox' = outbox ) ]_vars

\* C8 amended: such a decode changes neither current_location nor the
\* messages; when it is accepted, last_scans gets the decode time for that
\* text and nothing else changes in it, and process_qr_code returns None;
\* when it is suppressed, last_scans is unchanged.
C8_UnknownText ==
  [][ ( /\ IsDecodeStep
        /\ ~MatchesLocation(last'.qr_data)
        /\ ~MatchesObject(last'.qr_data) )
      => ( /\ current_location' = current_location
           /\ outbox' = outbox
           /\ last'.op = "processed" => last'.result = NoResult
           /\ last'.op = "processed" =>
                last_scans' = [k \in DOMAIN last_scans \cup {last'.qr_data} |->
                                IF k = last'.qr_data THEN clock
                                ELSE last_scans[k]]
           /\ last'.op = "duplicate" => last_scans' = last_scans ) ]_vars

C8_Witness ==
  /\ last.op = "processed"
  /\ last.qr_data = Txt_ZZZZ
  /\ last.result = NoResult
  /\ Txt_ZZZZ \in DOMAIN last_scans
  /\ Truthy(current_location)
  /\ outbox # << >>

\* C9: a call of is_duplicate_scan(r) that returns True leaves last_scans
\* unchanged; a call that returns False sets the entry of r to the current
\* time and changes no other entry; no step removes an entry; the entry of r
\* is the time of the latest accepted decode of r.
C9_Step ==
  /\ DOMAIN last_scans \subseteq DOMAIN last_scans'
  /\ (IsDecodeStep /\ last'.op = "duplicate") => last_scans' = last_scans
  /\ (IsDecodeStep /\ last'.op = "processed") =>
        /\ DOMAIN last_scans' = DOMAIN last_scans \cup {last'.qr_data}
        /\ last_scans'[last'.qr_data] = clock
        /\ \A k \in DOMAIN last_scans \ {last'.qr_data} :
             last_scans'[k] = last_scans[k]
  /\ ~IsDecodeStep => last_scans' = last_scans

C9_Entries ==
  /\ DOMAIN last_scans = {p[1] : p \in accepted}
  /\ \A r \in DOMAIN last_scans : last_scans[r] = LatestAccept(r)

C9_GateFrame == [][C9_Step]_vars /\ []C9_Entries

C9_Witness ==
  /\ last.op = "duplicate"
  /\ last_scans[last.qr_data] < clock
  /\ Cardinality(DOMAIN last_scans) >= 2
  /\ \E r \in DOMAIN last_scans : Cardinality(AcceptTimes(r)) >= 2

\* C10: current_location changes only in a step that processes an accepted
\* location decode, and once set it is never unset again.
C10_LocationFrame ==
  [][ /\ ( current_location' # current_location
           => ( /\ IsDecodeStep
                /\ last'.op = "processed"
                /\ MatchesLocation(last'.qr_data)
                /\ last'.result.type = "location"
                /\ current_location' = last'.result.code ) )
      /\ ( Truthy(current_location) => Truthy(current_location') ) ]_vars

C10_Witness ==
  /\ clock = MaxTime
  /\ <<Txt_OP1, 0>> \in accepted
  /\ current_location = Txt_OP1
  /\ Cardinality(accepted) >= 3
  /\ outbox # << >>
  /\ last.op = "capture_failed"

----------------------------------------------------------------------------
(* Properties of process_qr_code *)

\* C5: for every key L of the location table, process_qr_code(L) sets
\* current_location to L, whatever it was, returns a 'location' result with
\* code L and sends no scan message.
C5_LocationKeySetsLocation ==
  (pc = "called" /\ last.qr_data \in DOMAIN locations)
  => /\ current_location = last.qr_data
     /\ last.result = [type |-> "location", code |-> last.qr_data]
     /\ outbox = << >>

C5_Witness ==
  /\ pc = "called"
  /\ last.qr_data = Txt_k1
  /\ last.location_before = Txt_OP1
  /\ current_location = Txt_k1

\* C7: process_qr_code tries the raw text as a location key, then the
\* normalized text as a location key, then the raw text as an object key,
\* then the normalized text as an object key, and the first hit decides; a
\* text that matches a location key and an object key is a location and
\* sends no message.
C7_Expected(r) ==
  IF r \in DOMAIN locations THEN <<"location", r>>
  ELSE IF upper(strip(r)) \in DOMAIN locations
       THEN <<"location", upper(strip(r))>>
  ELSE IF r \in DOMAIN objects THEN <<"object", r>>
  ELSE IF upper(strip(r)) \in DOMAIN objects
       THEN <<"object", upper(strip(r))>>
  ELSE <<"none", None>>

C7_Kind(result) ==
  IF result.type = "none" THEN <<"none", None>>
  ELSE IF result.type = "location" THEN <<"location", result.code>>
  ELSE <<"object", result.code>>

C7_LookupOrder ==
  pc = "called"
  => /\ C7_Kind(last.result) = C7_Expected(last.qr_data)
     /\ (MatchesLocation(last.qr_data) /\ MatchesObject(last.qr_data))
          => (last.result.type = "location" /\ outbox = << >>)

C7_Witness ==
  /\ pc = "called"
  /\ last.qr_data = Txt_op2
  /\ last.location_before = Txt_OP1
  /\ last.result = [type |-> "location", code |-> Txt_OP2]
  /\ current_location = Txt_OP2
  /\ outbox = << >>

----------------------------------------------------------------------------
(* Properties of the publisher: send_rabbitmq_message *)

\* C11: send_rabbitmq_message never raises: a step that hands a message to it
\* ends with the outcome delivered or logged, and logged when there is no
\* channel. When the message is logged, its serialization is on the local
\* output, process_qr_code still returns an 'object' result, and
\* current_location, last_scans and the position of the scan loop are what a
\* successful delivery leaves.
C11_FailedPublishIsLogged ==
  [][ (IsDecodeStep /\ Len(outbox') = Len(outbox) + 1)
      => LET sent == outbox'[Len(outbox')] IN
           /\ sent.outcome \in {"delivered", "logged"}
           /\ (~rabbitmq_channel => sent.outcome = "logged")
           /\ (sent.outcome = "logged"
                 => \E i \in (Len(audit) + 1)..Len(audit') :
                      /\ audit'[i].message = sent.message
                      /\ audit'[i].serialized)
           /\ last'.op = "processed"
           /\ last'.result.type = "object"
           /\ last'.result.message_sent = (sent.outcome = "delivered")
           /\ current_location' = current_location
           /\ DOMAIN last_scans' = DOMAIN last_scans \cup {last'.qr_data}
           /\ \A k \in DOMAIN last_scans' :
                last_scans'[k] = IF k = last'.qr_data THEN clock
                                 ELSE last_scans[k]
           /\ pc' \in {"frame", "sleep"}
           /\ running' ]_vars

C11_Witness ==
  /\ pc = "sleep" /\ running
  /\ rabbitmq_channel
  /\ last.op = "processed"
  /\ last.result.type = "object"
  /\ ~last.result.message_sent
  /\ outbox # << >>
  /\ outbox[Len(outbox)].outcome = "logged"
  /\ audit # << >>
  /\ audit[Len(audit)].event = "send_failed"
  /\ audit[Len(audit)].message = LastMessage(outbox)
  /\ current_location = last.location_before

C13_MessageFromTables ==
  \A i \in 1..Len(outbox) :
    LET message == outbox[i].message IN
      /\ message.object_code \in DOMAIN objects
      /\ message.object_info = objects[message.object_code]
      /\ message.location_code \in DOMAIN locations
      /\ message.location_info = locations[message.location_code]
      /\ message.event_type = "object_location_update"

----------------------------------------------------------------------------
(* Properties of the consumer: process_scan_message *)

\* the step is one call of process_scan_message
IsDelivery == delivery_tag' = delivery_tag + 1

\* the location Store-B holds for an object, None when it holds none
StoredLocation(docs, object_code) ==
  IF current_id(object_code) \in DOMAIN docs
  THEN docs[current_id(object_code)].current_location_id
  ELSE None

\* C14: a delivery whose Store-A update fails and whose Store-B update
\* succeeds ends rejected with requeue, and Store-B holds the location the
\* delivery wrote.
C14_PartialFailureRequeued ==
  (delivery.ies4 = "failed" /\ delivery.solr = "ok")
  => /\ delivery.outcome = "nack_requeue"
     /\ StoredLocation(solr_docs, delivery.body.fields.object_code)
          = delivery.body.fields.location_code

\* C15: a delivery is acked exactly when its message was filtered out or both
\* store updates succeeded; a delivery with a failed store update is rejected
\* with requeue.
C15_AckedIffSucceeded ==
  delivery.tag > 0
  => /\ (delivery.outcome = "ack")
          <=> ( \/ delivery.filtered
                \/ (delivery.ies4 = "ok" /\ delivery.solr = "ok") )
     /\ ("failed" \in {delivery.ies4, delivery.solr})
          => delivery.outcome = "nack_requeue"

\* C16: the delivery of a body that is not valid JSON is rejected without
\* requeue: the body leaves the queue, no store is written, no notification
\* and no location update is published, and the statistics stay as they are.
C16_InvalidJsonDropped ==
  [][ (IsDelivery /\ Head(queue).kind \in {"not_json", "not_utf8"})
      => /\ delivery'.outcome = "nack_drop"
         /\ queue' = Tail(queue)
         /\ UNCHANGED <<ies4_entities, solr_docs, solr_pending,
                        notifications, location_updates,
                        processing_stats>> ]_vars

\* C17: the delivery of a body that is JSON but not an object, or an object
\* without object_code, is rejected without requeue and leaves the queue.
C17_InvalidMessageDropped ==
  [][ ( /\ IsDelivery
        /\ \/ Head(queue).kind = "json_array"
           \/ /\ Head(queue).kind = "json_object"
              /\ "object_code" \notin DOMAIN Head(queue).fields )
      => /\ delivery'.outcome = "nack_drop"
         /\ queue' = Tail(queue) ]_vars

\* C18: a second delivery of the body just delivered, both with successful
\* store updates, leaves Store-A and Store-B as the first delivery left them.
C18_RedeliveryIdempotent ==
  [][ ( /\ IsDelivery
        /\ Head(queue) = delivery.body
        /\ delivery.ies4 = "ok" /\ delivery.solr = "ok"
        /\ delivery'.ies4 = "ok" /\ delivery'.solr = "ok" )
      => /\ ies4_entities' = ies4_entities
         /\ solr_docs' = solr_docs ]_vars

\* C19: the scan timestamp stored for an object never decreases, in Store-A
\* and in the current-location document of Store-B.
C19_MarkerNeverDecreases ==
  [][ /\ \A e \in DOMAIN ies4_entities :
           ies4_entities'[e].timestamp >= ies4_entities[e].timestamp
      /\ \A e \in DOMAIN ies4_entities :
           current_id(e) \in DOMAIN solr_docs
           => solr_docs'[current_id(e)].last_seen
                >= solr_docs[current_id(e)].last_seen ]_vars

\* C20: a published location update carries as previous_location the
\* location Store-B held for the object before the delivery, and as
\* new_location_code the location_code of the delivered message.
C20_PreviousLocationIsPrior ==
  [][ (IsDelivery /\ Len(location_updates') = Len(location_updates) + 1)
      => LET update  == location_updates'[Len(location_updates')]
             message == Head(queue).fields
         IN /\ update.new_location_code = message.location_code
            /\ update.previous_location
                 = StoredLocation(solr_docs, message.object_code) ]_vars

\* the body is a scan message with every field the scanners write
IsScanMessage(body) ==
  /\ body.kind = "json_object"
  /\ {"timestamp", "object_code", "object_info", "location_code",
      "location_info"} \subseteq DOMAIN body.fields

\* how often a call was made in a delivery
Count(call, calls) == Cardinality({i \in 1..Len(calls) : calls[i] = call})

\* the delivery counted a successful update
CountedSuccess ==
  processing_stats'.successful_updates
    = processing_stats.successful_updates + 1

\* C21: a delivery of a scan message that passes the filter posts to Store-A
\* once and to Store-B once, also when the Store-A post fails; a successful
\* update is counted exactly when both store updates succeeded.
C21_BothStoresAttempted ==
  [][ (IsDelivery /\ IsScanMessage(Head(queue)) /\ ~delivery'.filtered)
      => /\ Count("ies4_post", delivery'.calls) = 1
         /\ Count("solr_post", delivery'.calls) = 1
         /\ delivery'.ies4 \in {"ok", "failed"}
         /\ delivery'.solr \in {"ok", "failed"}
         /\ CountedSuccess
              <=> (delivery'.ies4 = "ok" /\ delivery'.solr = "ok") ]_vars

C21_Witness ==
  /\ IsScanMessage(delivery.body)
  /\ delivery.ies4 = "failed"
  /\ delivery.solr = "ok"
  /\ Count("solr_post", delivery.calls) = 1
  /\ StoredLocation(solr_docs, delivery.body.fields.object_code)
       = delivery.body.fields.location_code
  /\ processing_stats.successful_updates = 0
  /\ processing_stats.failed_updates = 1

\* C22: a notification is sent and a location update is published only in a
\* delivery whose two store updates succeeded; within a delivery the store
\* requests come first, then the notification, then the location update.
C22_AfterBothStores ==
  [][ IsDelivery
      => LET calls == delivery'.calls IN
           /\ ( \/ notifications' # notifications
                \/ location_updates' # location_updates
                \/ Count("smtp", calls) > 0
                \/ Count("solr_select", calls) > 0
                \/ Count("publish_update", calls) > 0 )
              => (delivery'.ies4 = "ok" /\ delivery'.solr = "ok")
           /\ \A i \in 1..Len(calls), j \in 1..Len(calls) :
                ( \/ /\ calls[i] \in {"ies4_post", "solr_post", "solr_commit"}
                     /\ calls[j] \in {"smtp", "solr_select", "publish_update"}
                  \/ /\ calls[i] = "smtp"
                     /\ calls[j] \in {"solr_select", "publish_update"} )
                => i < j ]_vars

C22_Witness ==
  /\ delivery.calls = <<"ies4_post", "solr_post", "solr_commit", "smtp",
                        "solr_select", "publish_update", "basic_ack">>
  /\ delivery.notified
  /\ delivery.event
  /\ Len(notifications) = 1
  /\ Len(location_updates) = 1

\* C23: with auto_update_location false the delivery of a scan message is
\* acked and makes no other call; the stores, the notifications, the location
\* updates and the counters of successful and failed updates stay as they are.
C23_AutoUpdateOff ==
  [][ (IsDelivery /\ ~auto_update_location /\ IsScanMessage(Head(queue)))
      => /\ delivery'.outcome = "ack"
         /\ delivery'.calls = <<"basic_ack">>
         /\ queue' = Tail(queue)
         /\ UNCHANGED <<ies4_entities, solr_docs, solr_pending,
                        notifications, location_updates>>
         /\ processing_stats'.successful_updates
              = processing_stats.successful_updates
         /\ processing_stats'.failed_updates
              = processing_stats.failed_updates ]_vars

C23_Witness ==
  /\ ~auto_update_location
  /\ IsScanMessage(delivery.body)
  /\ delivery.filtered
  /\ delivery.outcome = "ack"
  /\ delivery.tag = 2
  /\ ies4_entities = << >> /\ solr_docs = << >>

\* C24: with auto_update_location true the delivery of a scan message passes
\* the filter and posts to both stores, whether the message is older than
\* notification_threshold_minutes or not.
C24_AgeNeverBlocks ==
  [][ (IsDelivery /\ auto_update_location /\ IsScanMessage(Head(queue)))
      => /\ ~delivery'.filtered
         /\ delivery'.stale
              <=> (mp_clock - Head(queue).fields.timestamp
                     > notification_threshold_minutes)
         /\ Count("ies4_post", delivery'.calls) = 1
         /\ Count("solr_post", delivery'.calls) = 1
         /\ delivery'.outcome = "ack" ]_vars

C24_Witness ==
  /\ auto_update_location
  /\ IsScanMessage(delivery.body)
  /\ delivery.stale
  /\ delivery.now - delivery.body.fields.timestamp
       > notification_threshold_minutes
  /\ delivery.ies4 = "ok" /\ delivery.solr = "ok"
  /\ delivery.body.fields.object_code \in DOMAIN ies4_entities

\* C25: a notification is attempted exactly in a delivery whose two store
\* updates succeeded and whose object type is a high-value type; when the
\* attempt fails, the location update is still published, the successful
\* update is still counted and the delivery is still acked.
C25_NotificationNeverFails ==
  [][ IsDelivery
      => LET succeeded == delivery'.ies4 = "ok" /\ delivery'.solr = "ok" IN
           /\ Count("smtp", delivery'.calls) \in {0, 1}
           /\ (Count("smtp", delivery'.calls) = 1)
                <=> ( /\ succeeded
                      /\ Head(queue).fields.object_info.type
                           \in {"Computer", "Network Equipment"} )
           /\ (Count("smtp", delivery'.calls) = 1 /\ ~delivery'.notified)
                => /\ notifications' = notifications
                   /\ Count("publish_update", delivery'.calls) = 1
                   /\ CountedSuccess
                   /\ delivery'.outcome = "ack" ]_vars

C25_Witness ==
  /\ Count("smtp", delivery.calls) = 1
  /\ ~delivery.notified
  /\ notifications = << >>
  /\ delivery.event
  /\ Len(location_updates) = 1
  /\ processing_stats.successful_updates = 1
  /\ delivery.outcome = "ack"

----------------------------------------------------------------------------
(* Properties of the scan loop: order and shutdown *)

\* C27: scan messages are handed to the publisher in the order of their
\* decodes: a message is added only by the decode step it belongs to, one
\* message a step, behind the messages of the earlier decodes, and carries
\* the time of its decode, so the times in the outbox never decrease.
C27_PublishedInDetectionOrder ==
  [][ /\ (outbox' # outbox)
           => /\ IsDecodeStep
              /\ last'.op = "processed"
              /\ Len(outbox') = Len(outbox) + 1
              /\ SubSeq(outbox', 1, Len(outbox)) = outbox
              /\ LastMessage(outbox').timestamp = clock
              /\ LastMessage(outbox').object_code = last'.result.code
      /\ \A i \in 1..Len(outbox'), j \in 1..Len(outbox') :
           i < j => outbox'[i].message.timestamp
                      <= outbox'[j].message.timestamp ]_vars

C27_Witness ==
  /\ Len(outbox) = 2
  /\ outbox[1].message.timestamp < outbox[2].message.timestamp
  /\ \/ <<Txt_S500, outbox[1].message.timestamp>> \in accepted
     \/ <<Txt_s500, outbox[1].message.timestamp>> \in accepted
  /\ last.op = "processed"
  /\ last.result.type = "object"

\* C28: once a shutdown signal has cleared the running flag, no further
\* iteration starts, the iteration in flight is not interrupted (clearing
\* the flag leaves the position in the loop and the codes still to decode
\* alone), and the loop is left only at its head, where cleanup follows.
C28_ShutdownCompletesIteration ==
  [][ /\ (running /\ ~running') => (pc' = pc /\ n_left' = n_left)
      /\ (~running /\ pc = "loop") => pc' \in {"loop", "done"}
      /\ (pc \in {"frame", "sleep"} /\ pc' # pc)
           => pc' \in {"frame", "sleep", "loop"} ]_vars

----------------------------------------------------------------------------
(* Properties of construction *)

\* C29: a configuration error (no file, invalid JSON, or a required section
\* qr_codes, scanner_settings or processing_rules missing) ends the started
\* program with exit status 1 before the camera is opened, the broker is
\* contacted, or any decode or message is handled.
C29_ConfigErrorIsFatalAtStartup ==
  (config_file # "ok" /\ boot.program # "none")
    => /\ boot.exit_status = "1"
       /\ boot.opened = {}
       /\ delivery_tag = 0
       /\ outbox = << >>

----------------------------------------------------------------------------
(* Properties of the consumer's deliveries in flight *)

StoresChanged ==
  \/ ies4_entities' # ies4_entities
  \/ solr_docs' # solr_docs
  \/ solr_pending' # solr_pending

EffectsChanged ==
  \/ notifications' # notifications
  \/ location_updates' # location_updates
  \/ processing_stats' # processing_stats

Settled(d) == d.outcome \in {"none", "ack", "nack_drop", "nack_requeue"}

\* C26: a consumer has at most one unacknowledged message: the message the
\* callback works on is that one, every store update, notification and
\* derived event belongs to it, and the callback starts on the next message
\* only when the one before has been acked or nacked.
C26_OneMessageInFlight ==
  [][ /\ Len(unacked') <= 1
      /\ mp_pc' # "idle"
           => /\ unacked' = <<delivery'.body>>
              /\ delivery'.outcome = "pending"
      /\ mp_pc' = "idle" => Settled(delivery')
      /\ delivery_tag' # delivery_tag
           => /\ mp_pc = "idle"
              /\ Settled(delivery)
              /\ delivery'.tag = delivery_tag'
              /\ ~StoresChanged /\ ~EffectsChanged
      /\ (StoresChanged \/ EffectsChanged)
           => /\ delivery.outcome = "pending"
              /\ delivery'.tag = delivery.tag
              /\ delivery'.body = delivery.body
              /\ unacked = <<delivery.body>>
      /\ (unacked # << >> /\ unacked' = << >>)
           => /\ mp_pc = "finish" /\ mp_pc' = "idle"
              /\ delivery'.outcome \in {"ack", "nack_drop", "nack_requeue"} ]_vars

\* the second delivery is between its two store updates while another
\* message waits at the broker
C26_Witness ==
  /\ mp_pc = "solr"
  /\ delivery.tag = 2
  /\ delivery.ies4 = "ok"
  /\ unacked = <<delivery.body>>
  /\ queue # << >>
  /\ IsScanMessage(queue[1])
  /\ processing_stats.messages_processed = 1

----------------------------------------------------------------------------
(* Properties of the processing statistics *)

\* C30: every processed scan has one of the three statuses success (both
\* stores updated), partial (exactly one) and failed (neither), and the
\* statistics keep them apart: successful_updates counts the successes,
\* failed_updates counts the total failures, and a partial success is
\* counted as neither.
C30_PartialKeptApartFromFailed ==
  [][ (delivery_tag' # delivery_tag /\ delivery'.ies4 # "not_called")
        => LET status == processing_status(delivery'.ies4 = "ok",
                                           delivery'.solr = "ok")
               counted(field) ==
                 processing_stats'[field] - processing_stats[field]
           IN /\ status \in {"success", "partial", "failed"}
              /\ status = "success"
                   <=> (delivery'.ies4 = "ok" /\ delivery'.solr = "ok")
              /\ status = "failed"
                   <=> (delivery'.ies4 # "ok" /\ delivery'.solr # "ok")
              /\ counted("messages_processed") = 1
              /\ counted("successful_updates")
                   = (IF status = "success" THEN 1 ELSE 0)
              /\ counted("failed_updates")
                   = (IF status = "failed" THEN 1 ELSE 0) ]_vars

----------------------------------------------------------------------------
(* Properties of redelivery *)

\* C31: every delivered message reaches a final state, acked or rejected
\* without requeue: a message that was rejected with requeue and is
\* delivered again is not rejected with requeue once more, so no body is
\* redelivered for ever because of an error its content determines.
C31_NoEndlessRedelivery ==
  [][ ( /\ IsDelivery
        /\ delivery.outcome = "nack_requeue"
        /\ Head(queue) = delivery.body )
      => delivery'.outcome \in {"ack", "nack_drop"} ]_vars

----------------------------------------------------------------------------
(* Properties of the dedup gate and the location *)

\* C32: a decode of a location code that the gate suppresses does not set
\* current_location: after accepted decodes of L1 and then L2, a decode of
\* L1 inside L1's window is skipped and current_location stays L2, and a
\* message published afterwards carries the location of the last accepted
\* location decode.
C32_SuppressedLocationKeepsLocation ==
  [][ /\ ( /\ IsDecodeStep
           /\ MatchesLocation(last'.qr_data)
           /\ AcceptTimes(last'.qr_data) # {}
           /\ clock - LatestAccept(last'.qr_data)
                < duplicate_scan_window_seconds )
         => /\ last'.op = "duplicate"
            /\ current_location' = current_location
      /\ outbox' # outbox
         => /\ LastMessage(outbox').location_code = located_by
            /\ current_location' = located_by ]_vars

\* OP1 was accepted, then op2 (location OP2), and a further OP1 inside the
\* window of the first was skipped
C32_Witness ==
  /\ last.op = "duplicate"
  /\ last.qr_data = Txt_OP1
  /\ current_location = Txt_OP2
  /\ located_by = Txt_OP2
  /\ \E t0, t1 \in 0..MaxTime :
       /\ t0 <= t1
       /\ <<Txt_OP1, t0>> \in accepted
       /\ <<Txt_op2, t1>> \in accepted
       /\ clock - t0 < duplicate_scan_window_seconds

\* C33: the gate is keyed on the decoded text as it is: a decode whose text
\* was not accepted inside the window is passed on even when a text with the
\* same normalized form was, and with a location set each of the two decodes
\* publishes its own message for the same object_code.
C33_GateKeyedOnRawText ==
  [][ ( /\ IsDecodeStep
        /\ \A t \in AcceptTimes(last'.qr_data) :
             clock - t >= duplicate_scan_window_seconds )
      => /\ last'.op = "processed"
         /\ accepted' = accepted \cup {<<last'.qr_data, clock>>}
         /\ ( /\ MatchesObject(last'.qr_data)
              /\ ~MatchesLocation(last'.qr_data)
              /\ Truthy(current_location) )
            => /\ Len(outbox') = Len(outbox) + 1
               /\ LastMessage(outbox').object_code
                    = upper(strip(last'.qr_data)) ]_vars

\* S500 and s500 were both accepted inside one window and each published a
\* message for S500
C33_Witness ==
  /\ last.op = "processed"
  /\ last.qr_data \in {Txt_S500, Txt_s500}
  /\ Len(outbox) = 2
  /\ outbox[1].message.object_code = Txt_S500
  /\ outbox[2].message.object_code = Txt_S500
  /\ \E t1, t2 \in 0..MaxTime :
       /\ t1 < t2
       /\ t2 - t1 < duplicate_scan_window_seconds
       /\ outbox[1].message.timestamp = t1
       /\ outbox[2].message.timestamp = t2
       /\ \/ {<<Txt_S500, t1>>, <<Txt_s500, t2>>} \subseteq accepted
          \/ {<<Txt_s500, t1>>, <<Txt_S500, t2>>} \subseteq accepted

----------------------------------------------------------------------------
(* Properties of the settlement and the counters of a delivery *)

SettleCalls(calls) == Count("basic_ack", calls) + Count("basic_nack", calls)

\* the path a call of process_scan_message took
PathOf(d) ==
  IF d.exception = "JSONDecodeError" THEN "malformed"
  ELSE IF d.exception # "" THEN "exception"
  ELSE IF d.filtered THEN "filtered"
  ELSE IF d.ies4 = "ok" /\ d.solr = "ok" THEN "success"
  ELSE "store_failure"

C35_CountersAddUp ==
  [][ LET old == processing_stats
          new == processing_stats'
          reached == delivery'.ies4 # "not_called"
      IN /\ old.messages_processed
              = old.successful_updates + old.failed_updates
         /\ new.messages_processed
              = new.successful_updates + new.failed_updates
         /\ \A f \in DOMAIN old : new[f] - old[f] \in {0, 1}
         /\ new # old => IsDelivery /\ reached
         /\ (IsDelivery /\ reached)
              => new.messages_processed = old.messages_processed + 1
         /\ (IsDelivery /\ PathOf(delivery')
                             \in {"filtered", "malformed", "exception"})
              => new = old ]_vars

\* one delivery was counted as successful and one as failed
C35_Witness ==
  /\ processing_stats = [messages_processed |-> 2, successful_updates |-> 1,
                         failed_updates |-> 1]
  /\ delivery.tag = 2
  /\ PathOf(delivery) = "store_failure"

----------------------------------------------------------------------------
(* Properties of the derived location update *)

LastUpdate(updates) == updates[Len(updates)]

\* what holds of every delivery whose two store updates succeeded, whatever
\* became of the derived event: it is acked and counted as successful, at
\* most one event is added, for the delivered message, and location_updates
\* changes in no other step
DerivedEventSwallowed ==
  /\ location_updates' # location_updates
       => /\ IsDelivery
          /\ PathOf(delivery') = "success"
          /\ delivery'.event
          /\ Len(location_updates') = Len(location_updates) + 1
          /\ SubSeq(location_updates', 1, Len(location_updates))
               = location_updates
          /\ LastUpdate(location_updates').object_code
               = delivery'.body.fields.object_code
  /\ (IsDelivery /\ PathOf(delivery') = "success")
       => /\ delivery'.outcome = "ack"
          /\ CountedSuccess
          /\ delivery'.event <=> location_updates' # location_updates
          /\ delivery'.publish # "ok" => ~delivery'.event
  /\ (IsDelivery /\ Head(queue) = delivery.body /\ ~delivery.event)
       => Len(location_updates') - Len(location_updates)
            = (IF delivery'.event THEN 1 ELSE 0)

\* C36: a failure while building or publishing the derived location update,
\* a failed lookup of the previous location included, is swallowed: the
\* delivery is acked and counted as successful, no event is emitted, and no
\* later step emits it.
C36_Original ==
  [][ /\ DerivedEventSwallowed
      /\ (IsDelivery /\ delivery'.lookup = "failed") => ~delivery'.event ]_vars

\* C36 (amended): a failure while building or publishing the derived event
\* is swallowed, the delivery is acked and counted as successful and the
\* event is not emitted and not retried; a failed lookup of the previous
\* location is swallowed too, but does not stop the event, which is then
\* emitted with previous_location None.
C36_DerivedEventFailureSwallowed ==
  [][ /\ DerivedEventSwallowed
      /\ (IsDelivery /\ delivery'.publish = "ok") => delivery'.event
      /\ (IsDelivery /\ delivery'.lookup = "failed" /\ delivery'.event)
           => LastUpdate(location_updates').previous_location = None
      /\ (IsDelivery /\ delivery'.lookup = "ok" /\ delivery'.event)
           => LastUpdate(location_updates').previous_location
                = delivery'.body.fields.location_code ]_vars

\* the lookup failed and the event went out; the delivery before it lost its
\* event to a failed publish
C36_Witness ==
  /\ delivery.tag = 2
  /\ PathOf(delivery) = "success"
  /\ delivery.lookup = "failed"
  /\ delivery.publish = "ok"
  /\ delivery.event
  /\ delivery.outcome = "ack"
  /\ Len(location_updates) = 1
  /\ location_updates[1].previous_location = None
  /\ processing_stats.successful_updates = 2

----------------------------------------------------------------------------
(* Properties of the filter *)

\* C37: should_process_message fails open: a message whose timestamp is
\* missing passes the filter when auto_update_location is true, and goes on
\* to the store updates; the auto_update_location rule comes first, so with
\* auto_update_location false the same message is filtered out and acked.
C37_FilterFailsOpen ==
  [][ ( /\ IsDelivery
        /\ parse_exception(Head(queue)) = ""
        /\ rules_raise(Head(queue)) )
      => /\ delivery'.filtered <=> ~auto_update_location
         /\ ~delivery'.stale
         /\ auto_update_location
              => /\ delivery'.ies4 # "not_called"
                 /\ delivery'.solr # "not_called"
                 /\ processing_stats'.messages_processed
                      = processing_stats.messages_processed + 1
         /\ ~auto_update_location
              => /\ delivery'.outcome = "ack"
                 /\ delivery'.calls = <<"basic_ack">>
                 /\ processing_stats' = processing_stats ]_vars

\* a scan message without timestamp passed the filter and reached the
\* store updates
C37_Witness ==
  /\ auto_update_location
  /\ delivery.tag > 0
  /\ delivery.body = Body(untimed_scan_message)
  /\ ~delivery.filtered
  /\ delivery.ies4 = "failed"
  /\ delivery.solr = "failed"
  /\ delivery.outcome = "ack"
  /\ processing_stats.failed_updates >= 1

----------------------------------------------------------------------------
(* Properties of the database service *)

OneRowPerObject(table) ==
  \A r1, r2 \in table : r1.object_code = r2.object_code => r1 = r2

\* the step is a call of record_asset_scan that returned True
IsRecordedScan ==
  /\ scan_seq' = scan_seq + 1
  /\ db_last'.op = "record_asset_scan"
  /\ db_last'.returned

\* C38: current_asset_positions holds at most one row per object_code; a
\* recorded scan leaves for its object one row with the location and time of
\* that scan and the first_seen of the row held before (the time of the scan
\* itself at the first sighting) and leaves the rows of other objects alone;
\* it appends one audit_trail row exactly when its location differs from
\* the location held before, the first sighting included; no other call,
\* cleanup_old_data included, changes the positions, and the rows of
\* audit_trail are never changed or deleted.
C38_PositionsAndAuditTrail ==
  [][ /\ OneRowPerObject(current_asset_positions)
      /\ OneRowPerObject(current_asset_positions')
      /\ Len(audit_trail') >= Len(audit_trail)
      /\ SubSeq(audit_trail', 1, Len(audit_trail)) = audit_trail
      /\ ( \/ current_asset_positions' # current_asset_positions
           \/ audit_trail' # audit_trail ) => IsRecordedScan
      /\ IsRecordedScan
         => LET d      == db_last'.scan_data
                before == RowsOf(current_asset_positions, d.object_code)
                after  == RowsOf(current_asset_positions', d.object_code)
                moved  == \A b \in before :
                            b.current_location_code # d.location_code
            IN /\ Cardinality(after) = 1
               /\ \A r \in after :
                    /\ r.current_location_code = d.location_code
                    /\ r.last_scan_timestamp = d.timestamp
                    /\ before = {} => r.first_seen = d.timestamp
                    /\ \A b \in before : r.first_seen = b.first_seen
               /\ current_asset_positions' \ after
                    = current_asset_positions \ before
               /\ Len(audit_trail')
                    = Len(audit_trail) + (IF moved THEN 1 ELSE 0)
               /\ moved
                  => LET a == audit_trail'[Len(audit_trail')]
                     IN /\ a.object_code = d.object_code
                        /\ a.new_location_code = d.location_code
                        /\ a.old_location_code
                             = old_location(current_asset_positions,
                                            d.object_code) ]_vars

\* S500 was recorded at OP1 and then at OP2, the first scan carrying the
\* later timestamp; cleanup_old_data has deleted a scan since
C38_Witness ==
  /\ db_last.op = "cleanup_old_data"
  /\ scan_seq = 2
  /\ Cardinality(asset_locations) < 2
  /\ Len(audit_trail) = 2
  /\ audit_trail[1].old_location_code = None
  /\ audit_trail[2].old_location_code = Txt_OP1
  /\ audit_trail[2].new_location_code = Txt_OP2
  /\ \E r \in current_asset_positions :
       /\ r.object_code = Txt_S500
       /\ r.current_location_code = Txt_OP2
       /\ r.total_moves = 2
       /\ r.first_seen = 1
       /\ r.last_scan_timestamp = 0

====
